---- MODULE Spec2Model ----
(***************************************************************************)
(* ThinkLife "Brain" workflow engine (backend/brain/cortex).               *)
(*                                                                         *)
(* The module models one call of WorkflowEngine.execute_plan as a state    *)
(* machine over the WorkflowState dictionary.  The engine has two          *)
(* execution strategies: the compiled LangGraph graph (_execute_graph) and *)
(* the sequential fallback (_execute_sequential).  Both are run here, side *)
(* by side, on the same execution spec and on the same external responses  *)
(* (provider, grading provider, data sources, tool registry), so that      *)
(* properties of "a run" are checked for either strategy and the two       *)
(* strategies can be compared.                                             *)
(*                                                                         *)
(* Conventions: Python strings are TLA+ strings; Python None is the        *)
(* sentinel None; confidences are integers in thousandths (0.75 = 750).    *)
(***************************************************************************)
EXTENDS Integers, Sequences, FiniteSets, TLC

(***************************************************************************)
(* Bounds of the model.                                                    *)
(***************************************************************************)
MaxSources == 1
MaxTools == 1
\* size of a scenario: the entries of the spec's data_sources and tools lists
\* plus the times the provider or the grading provider changes its behaviour
\* from one attempt to the next
MaxVariation == 2
\* the grader's scores run from 0 to MaxScore
MaxScore == 101

(***************************************************************************)
(* Program constants.                                                      *)
(***************************************************************************)
MaxValidationRuns == 5
ConfidenceThreshold == 750
ShortCircuitConfidence == 0
TooShortConfidence == 100
NoSubstanceConfidence == 200
RefusalConfidence == 300
BaseConfidence == 500
KeywordConfidence == 750
ValidationErrorConfidence == 500
MinStrippedLength == 10
MinSpaces == 3
RefusalMaxLength == 100
PrevResponseLimit == 500

None == "<None>"

Modes == {"graph", "sequential"}

(***************************************************************************)
(* String helpers: the str methods and the regular expressions the engine  *)
(* uses, computed on the strings themselves.                               *)
(***************************************************************************)
CharAt(s, i) == SubSeq(s, i, i)

Whitespace == {" ", "\t", "\n", "\r", "\f"}

Digits == "0123456789"

UpperAlphabet == "ABCDEFGHIJKLMNOPQRSTUVWXYZ"

LowerAlphabet == "abcdefghijklmnopqrstuvwxyz"

\* Python truthiness of an Optional[str]
Truthy(s) == s # None /\ s # ""

\* str.startswith
StartsWith(s, prefix) ==
    /\ Len(s) >= Len(prefix)
    /\ SubSeq(s, 1, Len(prefix)) = prefix

RECURSIVE IndexFrom(_, _, _)
\* least index >= i at which pat occurs in s, 0 if none (str.find + 1)
IndexFrom(s, pat, i) ==
    IF i + Len(pat) - 1 > Len(s) THEN 0
    ELSE IF SubSeq(s, i, i + Len(pat) - 1) = pat THEN i
    ELSE IndexFrom(s, pat, i + 1)

\* the `in` operator on strings
Contains(s, pat) ==
    \E i \in 1..(Len(s) - Len(pat) + 1) : SubSeq(s, i, i + Len(pat) - 1) = pat

\* str.count of a one-character string
Count(s, ch) == Cardinality({i \in 1..Len(s) : CharAt(s, i) = ch})

RECURSIVE SkipSpace(_, _)
\* first index >= i of s that holds no whitespace (Len(s)+1 if none)
SkipSpace(s, i) ==
    IF i > Len(s) THEN i
    ELSE IF CharAt(s, i) \in Whitespace THEN SkipSpace(s, i + 1)
    ELSE i

RECURSIVE SkipSpaceBack(_, _)
\* last index <= i of s that holds no whitespace (0 if none)
SkipSpaceBack(s, i) ==
    IF i < 1 THEN 0
    ELSE IF CharAt(s, i) \in Whitespace THEN SkipSpaceBack(s, i - 1)
    ELSE i

\* str.strip
Strip(s) == SubSeq(s, SkipSpace(s, 1), SkipSpaceBack(s, Len(s)))

LowerChar(c) ==
    LET k == IndexFrom(UpperAlphabet, c, 1)
    IN  IF k = 0 THEN c ELSE CharAt(LowerAlphabet, k)

RECURSIVE LowerRange(_, _, _)
\* the characters a..b of s in lower case
LowerRange(s, a, b) ==
    IF a > b THEN ""
    ELSE IF a = b THEN LowerChar(CharAt(s, a))
    ELSE LowerRange(s, a, (a + b) \div 2) \o LowerRange(s, (a + b) \div 2 + 1, b)

\* str.lower
Lower(s) == LowerRange(s, 1, Len(s))

IsDigit(c) == Len(c) = 1 /\ Contains(Digits, c)

DigitValue(c) == IndexFrom(Digits, c, 1) - 1

RECURSIVE DigitRunEnd(_, _)
\* last index of the run of digits of s that starts at i (i-1 if none)
DigitRunEnd(s, i) ==
    IF i <= Len(s) /\ IsDigit(CharAt(s, i)) THEN DigitRunEnd(s, i + 1)
    ELSE i - 1

RECURSIVE ToInt(_, _, _)
\* int() of the digits s[i..j]
ToInt(s, i, j) ==
    IF j < i THEN 0 ELSE 10 * ToInt(s, i, j - 1) + DigitValue(CharAt(s, j))

\* s[:n]
Truncate(s, n) == IF Len(s) > n THEN SubSeq(s, 1, n) ELSE s

RECURSIVE NatStr(_)
\* str() of a natural number
NatStr(n) ==
    IF n < 10 THEN CharAt(Digits, n + 1)
    ELSE NatStr(n \div 10) \o CharAt(Digits, (n % 10) + 1)

\* the confidences 0.3 * 0.5 + 0.7 * (score / 100) that end in 5 thousandths
\* and whose double lies above the decimal value (scores 15 and 55)
TiesRoundedUp == {255, 535}

\* a confidence in thousandths rounded to hundredths as the format :.2f does
Hundredths(c) ==
    IF c % 10 = 5
    THEN (IF c \in TiesRoundedUp THEN c \div 10 + 1 ELSE c \div 10)
    ELSE (c + 5) \div 10

\* f"{confidence:.2f}"
ConfStr(c) ==
    NatStr(Hundredths(c) \div 100) \o "."
    \o (IF Hundredths(c) % 100 < 10 THEN "0" ELSE "")
    \o NatStr(Hundredths(c) % 100)

(***************************************************************************)
(* Inputs of a run: the request, the execution spec and the values the     *)
(* external collaborators can hand back.                                   *)
(***************************************************************************)
\* the content of a provider response that is not a str (str methods raise)
NonStrContent == "<content that is not a str>"

IsStr(c) == c # NonStrContent /\ c # None

UserMessage == "Hello"

ProviderType == "openai"

ShortContent == "Hi hi"

ValidContent == "Here is a clear and complete answer for your need."

ProviderError == "rate limit exceeded"

ProviderException == "connection reset by peer"

\* request.message and the result of _extract_user_info_for_llm
Requests == {[message |-> UserMessage, user_info |-> None]}

\* specs.agent_metadata.get("messages_context", {})
NoMessagesContext ==
    [present |-> FALSE, system_prompt |-> "", conversation_history |-> <<>>,
     current_message |-> ""]

MessagesContexts == {NoMessagesContext}

\* DataSourceSpec entries.  A disabled entry is skipped before its type is
\* read, so one disabled entry stands for the disabled entries of every type.
DataSourceSpecs ==
    {[source_type |-> "vector_db", enabled |-> e] : e \in BOOLEAN}
    \cup {[source_type |-> "conversation_history", enabled |-> TRUE]}

ToolSpecs == {[name |-> "tavily_search", enabled |-> e] : e \in BOOLEAN}

SeqsUpTo(S, n) == UNION {[1..k -> S] : k \in 0..n}

\* AgentExecutionSpec: data_sources, provider, tools, agent_metadata
ExecutionSpecs ==
    [data_sources : SeqsUpTo(DataSourceSpecs, MaxSources),
     tools : SeqsUpTo(ToolSpecs, MaxTools),
     provider : BOOLEAN,
     messages_context : MessagesContexts]

\* what create_provider/initialize/generate_response do in call_provider
ProviderOutcomes ==
    {[kind |-> "init_failed", success |-> FALSE, content |-> "", error |-> None],
     [kind |-> "raises", success |-> FALSE, content |-> "", error |-> ProviderException],
     [kind |-> "response", success |-> FALSE, content |-> "", error |-> ProviderError],
     [kind |-> "response", success |-> TRUE, content |-> ShortContent, error |-> None],
     [kind |-> "response", success |-> TRUE, content |-> ValidContent, error |-> None],
     [kind |-> "response", success |-> TRUE, content |-> NonStrContent, error |-> None],
     \* a response without text: the content is None
     [kind |-> "response", success |-> TRUE, content |-> None, error |-> None]}

\* what the grading provider does in _validate_response_quality
GraderOutcomes ==
    {[kind |-> "init_failed", text |-> ""],
     [kind |-> "raises", text |-> ""],
     [kind |-> "reply", text |-> "SCORE: 90\nREASONING: clear and complete"],
     [kind |-> "reply", text |-> "SCORE: 75\nREASONING: partly relevant"],
     [kind |-> "reply", text |-> "Looks Good"],
     [kind |-> "reply", text |-> "needs work"]}

\* what the registry and the vector store do for one data source
DataSourceOutcomes == {"ok", "unavailable", "init_failed", "raises"}

DataSourceException == "vector store unreachable"

(***************************************************************************)
(* Response validator: WorkflowEngine._validate_response_quality           *)
(***************************************************************************)
ErrorPatterns ==
    {"i cannot", "i can't", "i don't have", "i'm unable",
     "as an ai", "i apologize, but", "i'm sorry, but"}

ValidationResult(valid, conf, feedback) ==
    [is_valid |-> valid, confidence |-> conf, feedback |-> feedback]

\* faulty variant: the check of the spaces comes before the check of the length
RuleStageSpacesFirst(response) ==
    IF Count(response, " ") < MinSpaces
    THEN [decided |-> TRUE,
          result |-> ValidationResult(FALSE, NoSubstanceConfidence, "Response lacks substance")]
    ELSE IF Len(Strip(response)) < MinStrippedLength
    THEN [decided |-> TRUE,
          result |-> ValidationResult(FALSE, TooShortConfidence, "Response is too short")]
    ELSE IF /\ \E pat \in ErrorPatterns : Contains(Lower(response), pat)
            /\ Len(response) < RefusalMaxLength
    THEN [decided |-> TRUE,
          result |-> ValidationResult(FALSE, RefusalConfidence,
                        "Response appears to be a refusal or error message")]
    ELSE [decided |-> FALSE,
          result |-> ValidationResult(TRUE, BaseConfidence, None)]

\* the three rule-based checks, in order; decided = FALSE when all pass
RuleStage(response) ==
    IF Len(Strip(response)) < MinStrippedLength
    THEN [decided |-> TRUE,
          result |-> ValidationResult(FALSE, TooShortConfidence, "Response is too short")]
    ELSE IF Count(response, " ") < MinSpaces
    THEN [decided |-> TRUE,
          result |-> ValidationResult(FALSE, NoSubstanceConfidence, "Response lacks substance")]
    ELSE IF /\ \E pat \in ErrorPatterns : Contains(Lower(response), pat)
            /\ Len(response) < RefusalMaxLength
    THEN [decided |-> TRUE,
          result |-> ValidationResult(FALSE, RefusalConfidence,
                        "Response appears to be a refusal or error message")]
    ELSE [decided |-> FALSE,
          result |-> ValidationResult(TRUE, BaseConfidence, None)]

RECURSIVE ScoreSearch(_, _)
\* re.search(r'SCORE:\s*(\d+)', text): the parsed number, -1 when no match
ScoreSearch(text, from) ==
    LET at == IndexFrom(text, "SCORE:", from)
        first == SkipSpace(text, at + 6)
        last == DigitRunEnd(text, first)
    IN  IF at = 0 THEN -1
        ELSE IF last >= first THEN ToInt(text, first, last)
        ELSE ScoreSearch(text, at + 1)

\* re.search(r'REASONING:\s*(.+)', text, IGNORECASE | DOTALL), stripped
ReasoningOf(text) ==
    LET at == IndexFrom(Lower(text), "reasoning:", 1)
    IN  IF at # 0 /\ at + 10 <= Len(text)
        THEN Strip(SubSeq(text, at + 10, Len(text)))
        ELSE "No reasoning provided"

\* faulty variant: the score is not capped at 100
CombinedConfidenceUncapped(llm_score) == (BaseConfidence * 3) \div 10 + 7 * llm_score

\* final_confidence = confidence_score * 0.3 + min(llm_score / 100, 1.0) * 0.7
CombinedConfidence(llm_score) ==
    (BaseConfidence * 3) \div 10 + 7 * (IF llm_score > 100 THEN 100 ELSE llm_score)

\* the verdict on the grader's reply (lines 650-684)
GradeReply(reply) ==
    LET validation_text == Strip(reply)
        llm_score == ScoreSearch(validation_text, 1)
        final_confidence == CombinedConfidence(llm_score)
    IN  IF llm_score >= 0
        THEN IF final_confidence >= ConfidenceThreshold
             THEN ValidationResult(TRUE, final_confidence, None)
             ELSE ValidationResult(FALSE, final_confidence,
                      "Confidence too low (" \o ConfStr(final_confidence) \o "): "
                          \o ReasoningOf(validation_text))
        ELSE IF \/ Contains(Lower(validation_text), "acceptable")
                \/ Contains(Lower(validation_text), "good")
             THEN ValidationResult(TRUE, KeywordConfidence, None)
             ELSE ValidationResult(FALSE, BaseConfidence, validation_text)

\* the strings call_provider can store in final_content
GeneratedContents ==
    {p.content : p \in {q \in ProviderOutcomes : q.kind = "response" /\ q.success}}
    \cup {"Error calling provider: " \o e :
            e \in {"No provider specified", "Failed to initialize provider " \o ProviderType,
                   ProviderException}}

\* the inputs of the validator taken on its own
\* responses around the limits of the three rule checks
RuleResponses ==
    {ShortContent,
     "a b c def",
     "a b c defg",
     "   a b c def   ",
     "Supercalifragilistic",
     "hello world again",
     "I cannot do",
     "I cannot help with that request.",
     "I CANNOT help with that request.",
     "I cannot share that, but here is what the public record says about the matter in some detail.......",
     "I cannot share that, but here is what the public record says about the matter in some detail........",
     ValidContent}

ScoredReply(n) == "SCORE: " \o NatStr(n) \o "\nREASONING: graded"

UnscoredReplies ==
    {"Looks Good", "needs work", "  This is acceptable.  ", "score: 90",
     "SCORE: high", ""}

GraderBehaviours ==
    {[kind |-> "init_failed", text |-> ""], [kind |-> "raises", text |-> ""]}
    \cup {[kind |-> "reply", text |-> ScoredReply(n)] : n \in 0..MaxScore}
    \cup {[kind |-> "reply", text |-> x] : x \in UnscoredReplies}

\* RuleStage and GradeReply, evaluated once for each string of the model
RuleStageOf ==
    [c \in {d \in GeneratedContents : IsStr(d)} \cup RuleResponses |-> RuleStage(c)]

GradeReplyOf ==
    [t \in {g.text : g \in GraderOutcomes \cup GraderBehaviours} |-> GradeReply(t)]

ValidateResponseQuality(response, provider, g) ==
    LET rule == IF response \in DOMAIN RuleStageOf THEN RuleStageOf[response]
                ELSE RuleStage(response)
    IN  IF rule.decided THEN rule.result
        ELSE IF ~provider THEN ValidationResult(TRUE, BaseConfidence, None)
        ELSE IF g.kind = "init_failed" THEN ValidationResult(TRUE, BaseConfidence, None)
        ELSE IF g.kind = "raises" THEN ValidationResult(TRUE, BaseConfidence, None)
        ELSE IF g.text \in DOMAIN GradeReplyOf THEN GradeReplyOf[g.text]
        ELSE GradeReply(g.text)

(***************************************************************************)
(* WorkflowState and the nodes of the workflow, as functions of the state  *)
(* and of the external responses.                                          *)
(***************************************************************************)
NoResponse == [present |-> FALSE, success |-> FALSE, content |-> "", error |-> None]

FallbackMessage ==
    "I'm not confident I can provide an accurate answer to that question right now."

\* initial_state of execute_plan
InitialState ==
    [data_source_results |-> <<>>,
     tool_results |-> <<>>,
     messages |-> <<>>,
     llm_response |-> NoResponse,
     final_content |-> None,
     errors |-> <<>>,
     execution_steps |-> <<>>,
     status |-> "running",
     end_time |-> None,
     validation_attempts |-> 0,
     max_validation_runs |-> MaxValidationRuns,
     validation_feedback |-> None,
     is_validated |-> FALSE,
     confidence_score |-> 0]

Step(s, name) == [s EXCEPT !.execution_steps = Append(@, name)]

AnyEnabled(list) == \E i \in 1..Len(list) : list[i].enabled

InitializeNode(s) == Step(s, "initialize")

RECURSIVE QuerySourcesAborting(_, _, _, _)
\* faulty variant: a source that raises ends the loop
QuerySourcesAborting(data_sources, outcome, i, acc) ==
    IF i > Len(data_sources) THEN acc
    ELSE LET ds == data_sources[i]
             source_name == ds.source_type
         IN  IF ~ds.enabled \/ source_name # "vector_db"
             THEN QuerySourcesAborting(data_sources, outcome, i + 1, acc)
             ELSE IF outcome[i] = "raises"
             THEN [acc EXCEPT !.errors = Append(@, "DS Error: " \o DataSourceException)]
             ELSE QuerySourcesAborting(data_sources, outcome, i + 1,
                      [acc EXCEPT !.results = Append(@,
                          [source |-> source_name,
                           results |-> IF outcome[i] = "ok" THEN <<"doc " \o NatStr(i)>>
                                       ELSE <<>>,
                           count |-> IF outcome[i] = "ok" THEN 1 ELSE 0,
                           error |-> IF outcome[i] = "ok" THEN None
                                     ELSE IF outcome[i] = "unavailable" THEN "Not available"
                                     ELSE "Initialization failed"])])

RECURSIVE QuerySources(_, _, _, _)
\* the loop over specs.data_sources: acc holds results and errors so far
QuerySources(data_sources, outcome, i, acc) ==
    IF i > Len(data_sources) THEN acc
    ELSE LET ds == data_sources[i]
             source_name == ds.source_type
             next ==
                 IF ~ds.enabled THEN acc
                 ELSE IF source_name # "vector_db" THEN acc
                 ELSE IF outcome[i] = "raises"
                 THEN [acc EXCEPT !.errors = Append(@, "DS Error: " \o DataSourceException)]
                 ELSE IF outcome[i] = "unavailable"
                 THEN [acc EXCEPT !.results = Append(@,
                          [source |-> source_name, results |-> <<>>, count |-> 0,
                           error |-> "Not available"])]
                 ELSE IF outcome[i] = "init_failed"
                 THEN [acc EXCEPT !.results = Append(@,
                          [source |-> source_name, results |-> <<>>, count |-> 0,
                           error |-> "Initialization failed"])]
                 ELSE [acc EXCEPT !.results = Append(@,
                          [source |-> source_name,
                           results |-> <<"doc " \o NatStr(i)>>, count |-> 1,
                           error |-> None])]
         IN  QuerySources(data_sources, outcome, i + 1, next)

QueryDataSourcesNode(s, specs, outcome) ==
    LET s1 == Step(s, "query_data_sources")
        done == QuerySources(specs.data_sources, outcome, 1,
                             [results |-> <<>>, errors |-> s1.errors])
    IN  [s1 EXCEPT !.errors = done.errors, !.data_source_results = done.results]

RECURSIVE RunTools(_, _, _, _)
\* the loop over specs.tools
RunTools(tools, available, i, results) ==
    IF i > Len(tools) THEN results
    ELSE LET tool == tools[i]
             next ==
                 IF ~tool.enabled THEN results
                 ELSE IF available[i]
                 THEN Append(results, [tool |-> tool.name, status |-> "executed",
                                       result |-> "Tool execution placeholder",
                                       error |-> None])
                 ELSE Append(results, [tool |-> tool.name, status |-> None,
                                       result |-> None, error |-> "Not available"])
         IN  RunTools(tools, available, i + 1, next)

ExecuteToolsNode(s, specs, available) ==
    [Step(s, "execute_tools") EXCEPT
        !.tool_results = RunTools(specs.tools, available, 1, <<>>)]

RECURSIVE Join(_, _)
\* sep.join(parts)
Join(parts, sep) ==
    IF Len(parts) = 0 THEN ""
    ELSE IF Len(parts) = 1 THEN parts[1]
    ELSE parts[1] \o sep \o Join(Tail(parts), sep)

\* f"Data from {r['source']}: {r.get('message', r.get('results', ''))}" per record
FormatDataSourceContext(s) ==
    Join([i \in 1..Len(s.data_source_results) |->
            LET r == s.data_source_results[i]
            IN  "Data from " \o r.source \o ": " \o
                (IF r.error = None THEN "[" \o Join(r.results, ", ") \o "]" ELSE "")],
         "\n")

\* f"Tool {r['tool']}: {r.get('result', r.get('error', ''))}" per record
FormatToolContext(s) ==
    Join([i \in 1..Len(s.tool_results) |->
            LET r == s.tool_results[i]
            IN  "Tool " \o r.tool \o ": " \o (IF r.error = None THEN r.result ELSE r.error)],
         "\n")

Message(role, content) == [role |-> role, content |-> content]

InjectContextMessages(messages, s) ==
    LET ds_ctx == FormatDataSourceContext(s)
        tool_ctx == FormatToolContext(s)
        m1 == IF ds_ctx # "" THEN Append(messages, Message("system", "Context:\n" \o ds_ctx))
              ELSE messages
    IN  IF tool_ctx # "" THEN Append(m1, Message("system", "Tool Results:\n" \o tool_ctx))
        ELSE m1

HasUserContextInPrompt(prompt) ==
    /\ prompt # ""
    /\ \E ind \in {"user_id", "session_id", "user context", "user information",
                   "authenticated user"} : Contains(Lower(prompt), ind)

RetryGuidance(prev_response, feedback) ==
    "IMPORTANT - Response Improvement Required:\nYour previous response was not satisfactory. \n\nPrevious response: "
    \o Truncate(prev_response, PrevResponseLimit)
    \o (IF Len(prev_response) > PrevResponseLimit THEN "..." ELSE "")
    \o "\n\nFeedback: " \o feedback
    \o "\n\nPlease generate a better, more helpful, and complete response that addresses the user's question properly."

\* the message list built from the agent's messages_context (lines 379-399)
AgentMessages(s, request, mc) ==
    LET user_info == request.user_info
        sys_prompt ==
            IF Truthy(user_info) /\ ~HasUserContextInPrompt(mc.system_prompt)
            THEN user_info \o "\n\n" \o mc.system_prompt
            ELSE mc.system_prompt
        m1 == IF sys_prompt # "" THEN <<Message("system", sys_prompt)>> ELSE <<>>
        m2 == m1 \o mc.conversation_history
        m3 == InjectContextMessages(m2, s)
    IN  Append(m3, Message("user",
            IF mc.current_message # "" THEN mc.current_message ELSE request.message))

\* the generic message list (lines 401-430)
GenericMessages(s, request, is_retry) ==
    LET user_info == request.user_info
        ds_ctx == FormatDataSourceContext(s)
        tool_ctx == FormatToolContext(s)
        p1 == IF Truthy(user_info) THEN <<user_info>> ELSE <<>>
        p2 == IF ds_ctx # "" THEN Append(p1, "Context from data sources:\n" \o ds_ctx) ELSE p1
        p3 == IF tool_ctx # "" THEN Append(p2, "Tool results:\n" \o tool_ctx) ELSE p2
        sys_parts ==
            IF is_retry THEN Append(p3, RetryGuidance(s.final_content, s.validation_feedback))
            ELSE p3
        m1 == IF Len(sys_parts) > 0 THEN <<Message("system", Join(sys_parts, "\n\n"))>>
              ELSE <<>>
    IN  Append(m1, Message("user", request.message))

BuildMessagesNode(s, request, specs) ==
    LET s1 == Step(s, "build_messages")
        is_retry == s.validation_attempts > 0 /\ Truthy(s.validation_feedback)
        mc == specs.messages_context
        \* prev_response[:500] raises when final_content is None
        raises == ~mc.present /\ is_retry /\ s.final_content = None
    IN  IF raises
        THEN [s1 EXCEPT
                !.errors = Append(@, "'NoneType' object is not subscriptable"),
                !.messages = IF Len(s.messages) = 0
                             THEN <<Message("user",
                                     IF request.message # "" THEN request.message ELSE "Hello")>>
                             ELSE s.messages]
        ELSE [s1 EXCEPT
                !.messages = IF mc.present THEN AgentMessages(s, request, mc)
                             ELSE GenericMessages(s, request, is_retry)]

\* the except branch of _call_provider_node (lines 516-519)
ProviderCallFailed(s, e) ==
    [s EXCEPT !.errors = Append(@, e),
              !.final_content = "Error calling provider: " \o e]

CallProviderNode(s, specs, p) ==
    LET s1 == Step(s, "call_provider")
    IN  IF ~specs.provider THEN ProviderCallFailed(s1, "No provider specified")
        ELSE IF p.kind = "init_failed"
        THEN ProviderCallFailed(s1, "Failed to initialize provider " \o ProviderType)
        ELSE IF p.kind = "raises" THEN ProviderCallFailed(s1, p.error)
        ELSE LET s2 == [s1 EXCEPT !.llm_response =
                          [present |-> TRUE, success |-> p.success,
                           content |-> p.content, error |-> p.error]]
                 err == IF p.error = None THEN "Unknown provider error" ELSE p.error
             IN  IF p.success THEN [s2 EXCEPT !.final_content = p.content]
                 ELSE [s2 EXCEPT !.errors = Append(@, err),
                                 !.final_content = "Error: " \o err]

\* faulty variant: the short-circuit on an error marker returns before the
\* attempt is counted
ValidateResponseNodeUncounted(s, request, specs, g) ==
    LET s1 == [Step(s, "validate_response") EXCEPT !.validation_attempts = @ + 1]
        response_content == s.final_content
    IN  IF response_content = NonStrContent
        THEN [s1 EXCEPT
                !.errors = Append(@, "Validation error: object has no attribute 'startswith'"),
                !.confidence_score = ValidationErrorConfidence,
                !.is_validated = TRUE]
        ELSE IF ~Truthy(response_content) \/ StartsWith(response_content, "Error:")
        THEN [Step(s, "validate_response") EXCEPT
                !.validation_feedback = "Response generation failed or returned error",
                !.confidence_score = ShortCircuitConfidence]
        ELSE LET validation_result ==
                     ValidateResponseQuality(response_content, specs.provider, g)
                 confidence == validation_result.confidence
             IN  IF confidence >= ConfidenceThreshold
                 THEN [s1 EXCEPT !.confidence_score = confidence, !.is_validated = TRUE]
                 ELSE [s1 EXCEPT
                         !.confidence_score = confidence,
                         !.is_validated = FALSE,
                         !.validation_feedback =
                             IF validation_result.feedback # None
                             THEN validation_result.feedback
                             ELSE "Confidence too low: " \o ConfStr(confidence)]

\* faulty variant: the node accepts from 0.8, not from 0.75
ValidateResponseNodeStrict(s, request, specs, g) ==
    LET s1 == [Step(s, "validate_response") EXCEPT !.validation_attempts = @ + 1]
        response_content == s.final_content
    IN  IF response_content = NonStrContent
        THEN [s1 EXCEPT
                !.errors = Append(@, "Validation error: object has no attribute 'startswith'"),
                !.confidence_score = ValidationErrorConfidence,
                !.is_validated = TRUE]
        ELSE IF ~Truthy(response_content) \/ StartsWith(response_content, "Error:")
        THEN [s1 EXCEPT
                !.validation_feedback = "Response generation failed or returned error",
                !.confidence_score = ShortCircuitConfidence]
        ELSE LET validation_result ==
                     ValidateResponseQuality(response_content, specs.provider, g)
                 confidence == validation_result.confidence
             IN  IF confidence >= ConfidenceThreshold + 50
                 THEN [s1 EXCEPT !.confidence_score = confidence, !.is_validated = TRUE]
                 ELSE [s1 EXCEPT
                         !.confidence_score = confidence,
                         !.is_validated = FALSE,
                         !.validation_feedback =
                             IF validation_result.feedback # None
                             THEN validation_result.feedback
                             ELSE "Confidence too low: " \o ConfStr(confidence)]

ValidateResponseNode(s, request, specs, g) ==
    LET s1 == [Step(s, "validate_response") EXCEPT !.validation_attempts = @ + 1]
        response_content == s.final_content
    IN  IF response_content = NonStrContent
        THEN \* response_content.startswith raises AttributeError
             [s1 EXCEPT
                !.errors = Append(@, "Validation error: object has no attribute 'startswith'"),
                !.confidence_score = ValidationErrorConfidence,
                !.is_validated = TRUE]
        ELSE IF ~Truthy(response_content) \/ StartsWith(response_content, "Error:")
        THEN [s1 EXCEPT
                !.validation_feedback = "Response generation failed or returned error",
                !.confidence_score = ShortCircuitConfidence]
        ELSE LET validation_result ==
                     ValidateResponseQuality(response_content, specs.provider, g)
                 confidence == validation_result.confidence
             IN  IF confidence >= ConfidenceThreshold
                 THEN [s1 EXCEPT !.confidence_score = confidence, !.is_validated = TRUE]
                 ELSE [s1 EXCEPT
                         !.confidence_score = confidence,
                         !.is_validated = FALSE,
                         !.validation_feedback =
                             IF validation_result.feedback # None
                             THEN validation_result.feedback
                             ELSE "Confidence too low: " \o ConfStr(confidence)]

\* does validate_response reach the grading call for this state
GraderConsulted(s, specs) ==
    /\ specs.provider
    /\ IsStr(s.final_content)
    /\ Truthy(s.final_content)
    /\ ~StartsWith(s.final_content, "Error:")
    /\ ~RuleStageOf[s.final_content].decided

\* a provider handle: the step that called create_provider, and whether the
\* step awaited close() on it before it returned
Handle(owner, closed) == [owner |-> owner, closed |-> closed]

NoHandles == <<>>

\* the handle _call_provider_node creates (line 491).  A failed initialize()
\* raises at line 493, before the try whose finally closes the handle
\* (lines 495-514); the finally covers generate_response and what follows.
CallProviderHandles(specs, p) ==
    IF ~specs.provider THEN NoHandles
    ELSE IF p.kind = "init_failed" THEN <<Handle("call_provider", FALSE)>>
    ELSE <<Handle("call_provider", TRUE)>>

\* the handle _validate_response_quality creates (line 620).  A failed
\* initialize() returns at line 623, before the try whose finally closes the
\* handle (lines 625-687).
GradingHandles(s, specs, g) ==
    IF ~GraderConsulted(s, specs) THEN NoHandles
    ELSE IF g.kind = "init_failed" THEN <<Handle("grading", FALSE)>>
    ELSE <<Handle("grading", TRUE)>>

\* faulty variant: the fallback also replaces a response scored exactly 0.75
FinalizeNodeInclusive(s) ==
    LET s1 == Step(s, "finalize")
        confidence == s.confidence_score
        s2 == IF confidence <= ConfidenceThreshold
              THEN [s1 EXCEPT
                      !.final_content = FallbackMessage,
                      !.errors = Append(@, "Low confidence response (" \o ConfStr(confidence)
                                             \o ") replaced with fallback")]
              ELSE s1
    IN  [s2 EXCEPT
            !.status = IF Len(s2.errors) > 0 THEN "completed_with_errors" ELSE "completed",
            !.end_time = "time.time()"]

\* faulty variant: the status is decided before the fallback error is recorded
FinalizeNodeStatusFirst(s) ==
    LET s1 == Step(s, "finalize")
        confidence == s.confidence_score
        s2 == [s1 EXCEPT
                 !.status = IF Len(s1.errors) > 0 THEN "completed_with_errors" ELSE "completed",
                 !.end_time = "time.time()"]
    IN  IF confidence < ConfidenceThreshold
        THEN [s2 EXCEPT
                !.final_content = FallbackMessage,
                !.errors = Append(@, "Low confidence response (" \o ConfStr(confidence)
                                       \o ") replaced with fallback")]
        ELSE s2

\* faulty variant: the fallback replaces the content without recording an error
FinalizeNodeSilentFallback(s) ==
    LET s1 == Step(s, "finalize")
        confidence == s.confidence_score
        s2 == IF confidence < ConfidenceThreshold
              THEN [s1 EXCEPT !.final_content = FallbackMessage]
              ELSE s1
    IN  [s2 EXCEPT
            !.status = IF Len(s2.errors) > 0 THEN "completed_with_errors" ELSE "completed",
            !.end_time = "time.time()"]

FinalizeNode(s) ==
    LET s1 == Step(s, "finalize")
        confidence == s.confidence_score
        s2 == IF confidence < ConfidenceThreshold
              THEN [s1 EXCEPT
                      !.final_content = FallbackMessage,
                      !.errors = Append(@, "Low confidence response (" \o ConfStr(confidence)
                                             \o ") replaced with fallback")]
              ELSE s1
    IN  [s2 EXCEPT
            !.status = IF Len(s2.errors) > 0 THEN "completed_with_errors" ELSE "completed",
            !.end_time = "time.time()"]

(***************************************************************************)
(* Routing                                                                 *)
(***************************************************************************)
RouteAfterInitialize(specs) ==
    IF AnyEnabled(specs.data_sources) THEN "data_sources"
    ELSE IF AnyEnabled(specs.tools) THEN "tools"
    ELSE "messages"

RouteAfterDataSources(specs) ==
    IF AnyEnabled(specs.tools) THEN "tools" ELSE "messages"

\* faulty variant: the ceiling test is off by one (> for >=)
RouteAfterValidationOffByOne(s) ==
    IF s.is_validated THEN [route |-> "finalize", state |-> s]
    ELSE IF s.validation_attempts > s.max_validation_runs
    THEN [route |-> "finalize",
          state |-> [s EXCEPT
                       !.is_validated = TRUE,
                       !.errors = Append(@, "Response validation failed after "
                                   \o NatStr(s.validation_attempts) \o " attempts")]]
    ELSE [route |-> "retry", state |-> s]

\* the route, and the state as the routing function leaves it
RouteAfterValidation(s) ==
    IF s.is_validated THEN [route |-> "finalize", state |-> s]
    ELSE IF s.validation_attempts >= s.max_validation_runs
    THEN [route |-> "finalize",
          state |-> [s EXCEPT
                       !.is_validated = TRUE,
                       !.errors = Append(@, "Response validation failed after "
                                   \o NatStr(s.validation_attempts) \o " attempts")]]
    ELSE [route |-> "retry", state |-> s]

(***************************************************************************)
(* The registries.  The module files the registries look for (openai.py,   *)
(* anthropic.py, gemini.py, tavily_search.py, vector_db.py) are part of    *)
(* the package.                                                            *)
(***************************************************************************)
PROVIDER_CONFIGS ==
    <<[name |-> "openai",
       models |-> <<"gpt-4o", "gpt-4o-mini", "gpt-4-turbo", "gpt-4", "gpt-3.5-turbo">>,
       default_model |-> "gpt-4o-mini"],
      [name |-> "anthropic",
       models |-> <<"claude-3-5-sonnet-20241022", "claude-3-5-haiku-20241022",
                    "claude-3-opus-20240229", "claude-3-sonnet-20240229",
                    "claude-3-haiku-20240307">>,
       default_model |-> "claude-3-5-sonnet-20241022"],
      [name |-> "gemini",
       models |-> <<"gemini-1.5-flash", "gemini-1.5-pro", "gemini-1.0-pro",
                    "gemini-1.5-flash-8b", "gemini-1.5-pro-002">>,
       default_model |-> "gemini-1.5-flash"]>>

TOOLS == <<"tavily_search">>

DATA_SOURCES == <<"vector_db">>

Elements(seq) == {seq[i] : i \in 1..Len(seq)}

(***************************************************************************)
(* The two execution strategies of execute_plan.                           *)
(*                                                                         *)
(* pc[m] is the node strategy m executes next; "return" is the outcome     *)
(* computation of execute_plan after the final state is known, "done" the  *)
(* returned call.  A node is executed by every strategy that has reached   *)
(* it, with the same external response, and a strategy that is behind the  *)
(* other one moves first (Rank), so that both see the same responses.      *)
(***************************************************************************)
VARIABLES specs, request, st, pc, result, env

\* the provider handles created by the step each strategy executed last
\* among call_provider and validate_response
VARIABLE handles

\* CortexFlow and its SecurityManager: the security configuration, whether
\* initialize() has completed, the per-user timestamp lists, the wall clock
\* in seconds, the history of the calls check_rate_limit allowed, and the
\* calls of process_agent_request in progress
VARIABLES config, initialized, rate_limits, clock, allowed, rq

\* the capability registries (module data and package files) with the calls
\* answered so far, and the ZoeConversationManager: its conversations, every
\* message added to a session since the session was last cleared, and the
\* value the last call returned
VARIABLES registry, answers, conversations, transcript, last_return

engineVars == <<specs, request, st, pc, result, env, handles>>

cortexVars == <<config, initialized, rate_limits, clock, allowed, rq>>

serviceVars == <<registry, answers, conversations, transcript, last_return>>

vars == <<specs, request, st, pc, result, env, handles,
          config, initialized, rate_limits, clock, allowed, rq,
          registry, answers, conversations, transcript, last_return>>

\* SecurityManager._get_default_config
DefaultSecurityConfig ==
    [rate_limiting |-> [enabled |-> TRUE, max_requests_per_minute |-> 60,
                        max_requests_per_hour |-> 1000],
     user_validation |-> [require_auth |-> TRUE, allow_anonymous |-> FALSE]]

\* SecurityManager.__init__: self.rate_limits = {}
NoRateLimits == <<>>

\* no call of process_agent_request is in progress
NoRequests == <<>>

\* an engine run on its own: the CortexFlow around it is at rest
CortexAtRest ==
    /\ config = DefaultSecurityConfig
    /\ initialized = TRUE
    /\ rate_limits = NoRateLimits
    /\ clock = 0
    /\ allowed = <<>>
    /\ rq = NoRequests

\* the registries as the package ships them
PackagedRegistry ==
    [PROVIDER_CONFIGS |-> PROVIDER_CONFIGS, TOOLS |-> TOOLS,
     files |-> {"providers/openai.py", "providers/anthropic.py",
                "providers/gemini.py", "tools/tavily_search.py"}]

\* ZoeConversationManager.__init__: self.conversations = {}
NoConversations == <<>>

\* the sessions the callers of the conversation manager use
Sessions == {"s1", "s2"}

\* nothing was added yet: per session, the number of messages created for it
\* and the messages added since it was last cleared
NoTranscript == [created |-> [s \in Sessions |-> 0], sent |-> [s \in Sessions |-> <<>>]]

\* no call of the conversation manager has returned yet
NoCall == [fn |-> None, session_id |-> None, value |-> FALSE]

\* the registries and the conversation manager, not called
ServicesAtRest ==
    /\ registry = PackagedRegistry
    /\ answers = <<>>
    /\ conversations = NoConversations
    /\ transcript = NoTranscript
    /\ last_return = NoCall

\* env records what the provider and the grading provider did last, what
\* each data source did when it was queried, and the variation of the
\* scenario so far
NoBehaviour == [kind |-> "none"]

InitialEnv(s) ==
    [provider |-> NoBehaviour, grader |-> NoBehaviour,
     variation |-> Len(s.data_sources) + Len(s.tools),
     waited |-> 0, sources |-> <<>>]

Changes(last, now) == IF last.kind # "none" /\ last # now THEN 1 ELSE 0

NoResult ==
    [returned |-> FALSE, success |-> FALSE, content |-> "", status |-> "",
     confidence |-> 0]

Rank(m) ==
    CASE pc[m] = "initialize" -> 0
      [] pc[m] = "query_data_sources" -> 1
      [] pc[m] = "execute_tools" -> 2
      [] pc[m] = "build_messages" -> 3 + 3 * st[m].validation_attempts
      [] pc[m] = "call_provider" -> 4 + 3 * st[m].validation_attempts
      [] pc[m] = "validate_response" -> 5 + 3 * st[m].validation_attempts
      [] pc[m] = "finalize" -> 3 * (MaxValidationRuns + 2)
      [] pc[m] = "return" -> 3 * (MaxValidationRuns + 2) + 1
      [] OTHER -> 3 * (MaxValidationRuns + 2) + 2

\* the strategies that execute node now
At(node) == {m \in Modes : pc[m] = node /\ \A n \in Modes : Rank(m) <= Rank(n)}

\* _build_graph's edges out of initialize; _execute_sequential lines 235-243
AfterInitialize(m) ==
    IF m = "graph"
    THEN CASE RouteAfterInitialize(specs) = "data_sources" -> "query_data_sources"
           [] RouteAfterInitialize(specs) = "tools" -> "execute_tools"
           [] OTHER -> "build_messages"
    ELSE IF Len(specs.data_sources) > 0 THEN "query_data_sources"
    ELSE IF Len(specs.tools) > 0 THEN "execute_tools"
    ELSE "build_messages"

\* _build_graph's edges out of query_data_sources; _execute_sequential lines 238-243
AfterDataSources(m) ==
    IF m = "graph"
    THEN IF RouteAfterDataSources(specs) = "tools" THEN "execute_tools" ELSE "build_messages"
    ELSE IF Len(specs.tools) > 0 THEN "execute_tools"
    ELSE "build_messages"

\* the state after the routing function ran.  The sequential loop routes on
\* the state dictionary itself.  The graph hands the routing function the
\* state as LangGraph read it back: whether an item assignment
\* (is_validated) or an in-place list append (errors) made there reaches
\* the state finalize sees is decided by the library, so both are open.
AfterRoute(m, s, keep_flag, keep_errors) ==
    LET routed == RouteAfterValidation(s).state
    IN  IF m = "graph"
        THEN [s EXCEPT
                !.is_validated = IF keep_flag THEN routed.is_validated ELSE @,
                !.errors = IF keep_errors THEN routed.errors ELSE @]
        ELSE routed

\* faulty variant: the "retry" route is mapped to no node
AfterValidationNoRetryEdge(s) ==
    IF RouteAfterValidation(s).route = "retry" THEN "retry" ELSE "finalize"

\* faulty variant: a run that exhausts its attempts returns without finalize
AfterValidationSkipFinalize(s) ==
    IF RouteAfterValidation(s).route = "retry" THEN "build_messages"
    ELSE IF s.is_validated THEN "finalize"
    ELSE "return"

\* faulty variant: a retry goes back to retrieval
AfterValidationRequery(s) ==
    IF RouteAfterValidation(s).route = "retry" THEN "query_data_sources" ELSE "finalize"

\* _build_graph's edges out of validate_response; _execute_sequential lines 248-253
AfterValidation(s) ==
    IF RouteAfterValidation(s).route = "retry" THEN "build_messages" ELSE "finalize"

Init ==
    /\ specs \in ExecutionSpecs
    /\ request \in Requests
    /\ st = [m \in Modes |-> InitialState]
    /\ pc = [m \in Modes |-> "initialize"]
    /\ result = [m \in Modes |-> NoResult]
    /\ env = InitialEnv(specs)
    /\ env.variation <= MaxVariation
    /\ handles = [m \in Modes |-> NoHandles]
    /\ CortexAtRest
    /\ ServicesAtRest

Initialize ==
    /\ At("initialize") # {}
    /\ st' = [m \in Modes |-> IF m \in At("initialize") THEN InitializeNode(st[m]) ELSE st[m]]
    /\ pc' = [m \in Modes |-> IF m \in At("initialize") THEN AfterInitialize(m) ELSE pc[m]]
    /\ UNCHANGED <<specs, request, result, env, handles>>
    /\ UNCHANGED <<cortexVars, serviceVars>>

QueryDataSources ==
    /\ At("query_data_sources") # {}
    /\ \E outcome \in [1..Len(specs.data_sources) -> DataSourceOutcomes] :
         \* a source that is not queried has no outcome to choose
         /\ \A i \in 1..Len(specs.data_sources) :
              (~specs.data_sources[i].enabled
                 \/ specs.data_sources[i].source_type # "vector_db") => outcome[i] = "ok"
         /\ env' = [env EXCEPT !.waited = 0, !.sources = outcome]
         /\ st' = [m \in Modes |->
                     IF m \in At("query_data_sources")
                     THEN QueryDataSourcesNode(st[m], specs, outcome) ELSE st[m]]
    /\ pc' = [m \in Modes |->
                IF m \in At("query_data_sources") THEN AfterDataSources(m) ELSE pc[m]]
    /\ UNCHANGED <<specs, request, result, handles>>
    /\ UNCHANGED <<cortexVars, serviceVars>>

ExecuteTools ==
    /\ At("execute_tools") # {}
    /\ \E available \in [1..Len(specs.tools) -> BOOLEAN] :
         /\ \A i \in 1..Len(specs.tools) : ~specs.tools[i].enabled => available[i]
         /\ st' = [m \in Modes |->
                     IF m \in At("execute_tools")
                     THEN ExecuteToolsNode(st[m], specs, available) ELSE st[m]]
    /\ pc' = [m \in Modes |-> IF m \in At("execute_tools") THEN "build_messages" ELSE pc[m]]
    /\ UNCHANGED <<specs, request, result, env, handles>>
    /\ UNCHANGED <<cortexVars, serviceVars>>

BuildMessages ==
    /\ At("build_messages") # {}
    /\ st' = [m \in Modes |->
                IF m \in At("build_messages")
                THEN BuildMessagesNode(st[m], request, specs) ELSE st[m]]
    /\ pc' = [m \in Modes |-> IF m \in At("build_messages") THEN "call_provider" ELSE pc[m]]
    /\ UNCHANGED <<specs, request, result, env, handles>>
    /\ UNCHANGED <<cortexVars, serviceVars>>

CallProvider ==
    /\ At("call_provider") # {}
    /\ \E p \in ProviderOutcomes :
         /\ IF specs.provider
            THEN /\ env.variation + Changes(env.provider, p) <= MaxVariation
                 /\ env' = [env EXCEPT !.provider = p,
                                       !.variation = @ + Changes(env.provider, p),
                                       !.waited = 0]
            ELSE \* no provider is created: nothing to choose
                 /\ p = CHOOSE q \in ProviderOutcomes : TRUE
                 /\ env' = [env EXCEPT !.waited = 0]
         /\ handles' = [m \in Modes |->
                          IF m \in At("call_provider")
                          THEN CallProviderHandles(specs, p)
                          ELSE handles[m]]
         /\ st' = [m \in Modes |->
                     IF m \in At("call_provider")
                     THEN CallProviderNode(st[m], specs, p) ELSE st[m]]
    /\ pc' = [m \in Modes |-> IF m \in At("call_provider") THEN "validate_response" ELSE pc[m]]
    /\ UNCHANGED <<specs, request, result>>
    /\ UNCHANGED <<cortexVars, serviceVars>>

ValidateResponse ==
    /\ At("validate_response") # {}
    /\ \E g \in GraderOutcomes, keep_flag \in BOOLEAN, keep_errors \in BOOLEAN :
         LET validated == [m \in Modes |-> ValidateResponseNode(st[m], request, specs, g)]
             consulted == \E m \in At("validate_response") : GraderConsulted(st[m], specs)
             mutated == \E m \in At("validate_response") :
                            RouteAfterValidation(validated[m]).state # validated[m]
         IN  /\ IF consulted
                THEN /\ env.variation + Changes(env.grader, g) <= MaxVariation
                     /\ env' = [env EXCEPT !.grader = g,
                                           !.variation = @ + Changes(env.grader, g),
                                           !.waited = 0]
                ELSE \* no grading call is made: nothing to choose
                     /\ g = CHOOSE h \in GraderOutcomes : TRUE
                     /\ env' = [env EXCEPT !.waited = 0]
             /\ handles' = [m \in Modes |->
                              IF m \in At("validate_response")
                              THEN GradingHandles(st[m], specs, g)
                              ELSE handles[m]]
             /\ ~mutated => keep_flag /\ keep_errors
             \* an item assignment that survives implies the list append does
             /\ keep_flag => keep_errors
             /\ st' = [m \in Modes |->
                         IF m \in At("validate_response")
                         THEN AfterRoute(m, validated[m], keep_flag, keep_errors)
                         ELSE st[m]]
             /\ pc' = [m \in Modes |->
                         IF m \in At("validate_response")
                         THEN AfterValidation(validated[m]) ELSE pc[m]]
    /\ UNCHANGED <<specs, request, result>>
    /\ UNCHANGED <<cortexVars, serviceVars>>

Finalize ==
    /\ At("finalize") # {}
    /\ st' = [m \in Modes |-> IF m \in At("finalize") THEN FinalizeNode(st[m]) ELSE st[m]]
    /\ pc' = [m \in Modes |-> IF m \in At("finalize") THEN "return" ELSE pc[m]]
    /\ UNCHANGED <<specs, request, result, env, handles>>
    /\ UNCHANGED <<cortexVars, serviceVars>>

\* the outcome execute_plan computes from the final state (lines 175-206)
Outcome(final_state) ==
    LET final_content ==
            IF final_state.final_content # None THEN final_state.final_content
            ELSE IF final_state.llm_response.present THEN final_state.llm_response.content
            ELSE "No response generated"
        llm_success == final_state.llm_response.present /\ final_state.llm_response.success
        has_valid_content ==
            /\ Truthy(final_content)
            /\ final_content # "No response generated"
            /\ ~StartsWith(final_content, "Error:")
        is_successful ==
            \/ llm_success /\ has_valid_content
            \/ has_valid_content /\ final_state.status \in {"completed", "completed_with_errors"}
    IN  IF final_content = NonStrContent
        THEN \* final_content.startswith raises: the except branch (lines 208-216)
             [returned |-> TRUE, success |-> FALSE,
              content |-> "Workflow execution failed: object has no attribute 'startswith'",
              status |-> "failed", confidence |-> 0]
        ELSE [returned |-> TRUE, success |-> is_successful,
              content |-> IF Truthy(final_content) THEN final_content ELSE "",
              status |-> final_state.status,
              confidence |-> final_state.confidence_score]

Return ==
    /\ At("return") # {}
    /\ result' = [m \in Modes |-> IF m \in At("return") THEN Outcome(st[m]) ELSE result[m]]
    /\ pc' = [m \in Modes |-> IF m \in At("return") THEN "done" ELSE pc[m]]
    /\ UNCHANGED <<specs, request, st, env, handles>>
    /\ UNCHANGED <<cortexVars, serviceVars>>

Next ==
    \/ Initialize
    \/ QueryDataSources
    \/ ExecuteTools
    \/ BuildMessages
    \/ CallProvider
    \/ ValidateResponse
    \/ Finalize
    \/ Return

Spec == Init /\ [][Next]_vars

\* every node returns once its external calls return
LiveSpec == Spec /\ WF_vars(Next)

(***************************************************************************)
(* External calls that are slow to return.  A node that awaits an external *)
(* call (the vector store, the provider, the grading provider) stays where *)
(* it is while the call is pending; env.waited is the time the call has    *)
(* been pending, in seconds.  The engine arms no timer and never reads     *)
(* specs.processing.timeout_seconds, so the only step out of a pending     *)
(* call is the return of the call.                                         *)
(***************************************************************************)
\* ProcessingSpec.timeout_seconds
TimeoutSeconds == 30

\* the longest time a call is observed pending, in seconds
MaxWait == 60

\* strategy m is at a node whose next await is an external call
AwaitsExternalCall(m) ==
    \/ /\ pc[m] = "query_data_sources"
       /\ \E i \in DOMAIN specs.data_sources :
             specs.data_sources[i].enabled /\ specs.data_sources[i].source_type = "vector_db"
    \/ pc[m] = "call_provider" /\ specs.provider
    \/ pc[m] = "validate_response" /\ GraderConsulted(st[m], specs)

Awaiting == \E m \in Modes : m \in At(pc[m]) /\ AwaitsExternalCall(m)

\* the pending call does not return for another timeout_seconds
Wait ==
    /\ Awaiting
    /\ env.waited + TimeoutSeconds <= MaxWait
    /\ env' = [env EXCEPT !.waited = @ + TimeoutSeconds]
    /\ UNCHANGED <<specs, request, st, pc, result, handles>>
    /\ UNCHANGED <<cortexVars, serviceVars>>

\* a run with a provider, an enabled data source and an enabled tool
TimeoutInit ==
    /\ Init
    /\ specs.provider
    /\ AnyEnabled(specs.data_sources)
    /\ AnyEnabled(specs.tools)

TimeoutNext == Next \/ Wait

\* a node runs on when it awaits no external call; a pending call need not
\* return
TimeoutSpec ==
    TimeoutInit /\ [][TimeoutNext]_vars /\ WF_vars(Next /\ ~Awaiting)

(***************************************************************************)
(* CortexFlow (backend/brain/cortex/cortex.py): process_agent_request with *)
(* its registries, the SecurityManager guardrails, the planner and the     *)
(* validation of the plan.                                                 *)
(*                                                                         *)
(* Conventions: costs are integers in units of 0.00001 USD, latencies in   *)
(* hundredths of a second, the clock and processing times in seconds.      *)
(***************************************************************************)
\* calls of process_agent_request in one behaviour
MaxArrivals == 2
\* largest caps of the rate limiting configurations
MaxPerMinute == 2
MaxPerHour == 3

MinuteWindow == 60
HourWindow == 3600
MinReasoningConfidence == 300
DirectConfidence == 1000
EngineConfidence == 750
FailedEngineConfidence == 0
DefaultMaxTokens == 2000
DataSourceCost == 100
ToolCost == 500
FallbackLatency == 100
BaselineLatency == 50
DataSourceLatency == 30
ToolLatency == 50
ProviderLatency == 150

Users == {"u1", "u2"}

RECURSIVE PadLeft(_, _)
PadLeft(s, n) == IF Len(s) >= n THEN s ELSE PadLeft("0" \o s, n)

RECURSIVE StripZeros(_)
StripZeros(s) ==
    IF Len(s) > 1 /\ CharAt(s, Len(s)) = "0"
    THEN StripZeros(SubSeq(s, 1, Len(s) - 1))
    ELSE s

\* str() of the float n / 10^digits
FloatStr(n, digits) ==
    LET unit == 10 ^ digits
        a == IF n < 0 THEN 0 - n ELSE n
    IN  (IF n < 0 THEN "-" ELSE "") \o NatStr(a \div unit) \o "."
        \o StripZeros(PadLeft(NatStr(a % unit), digits))

\* str() of a list of str
ListRepr(items) ==
    "[" \o Join([i \in 1..Len(items) |-> "'" \o items[i] \o "'"], ", ") \o "]"

(***************************************************************************)
(* The registry checks.                                                    *)
(***************************************************************************)
\* the info dictionary of check_provider_and_model; None when is_none
NoInfo == [is_none |-> TRUE, provider_type |-> None, model |-> None, available |-> FALSE]

\* check_provider_and_model evaluated on the registry data reg:
\* (is_valid, errors, info)
CheckProviderAndModelOn(reg, provider_type, model) ==
    LET configs == reg.PROVIDER_CONFIGS
        names == [i \in 1..Len(configs) |-> configs[i].name]
        owners == {i \in 1..Len(configs) : model \in Elements(configs[i].models)}
    IN  IF provider_type \notin Elements(names)
        THEN [is_valid |-> FALSE,
              errors |-> <<"Provider '" \o provider_type \o "' not found. Available: "
                           \o ListRepr(names)>>,
              info |-> NoInfo]
        ELSE IF ("providers/" \o provider_type \o ".py") \notin reg.files
        THEN [is_valid |-> FALSE,
              errors |-> <<"Provider file not found: " \o provider_type \o ".py">>,
              info |-> NoInfo]
        ELSE LET cfg == configs[CHOOSE i \in 1..Len(names) : names[i] = provider_type]
             IN  IF model \in {None, ""}
                 THEN [is_valid |-> TRUE, errors |-> <<>>,
                       info |-> [is_none |-> FALSE, provider_type |-> provider_type,
                                 model |-> cfg.default_model, available |-> TRUE]]
                 ELSE IF model \in Elements(cfg.models)
                 THEN [is_valid |-> TRUE, errors |-> <<>>,
                       info |-> [is_none |-> FALSE, provider_type |-> provider_type,
                                 model |-> model, available |-> TRUE]]
                 ELSE IF owners = {}
                 THEN [is_valid |-> FALSE,
                       errors |-> <<"Model '" \o model
                                    \o "' not found in any provider. Available models for '"
                                    \o provider_type \o "': " \o ListRepr(cfg.models)>>,
                       info |-> NoInfo]
                 ELSE LET model_owner ==
                              names[CHOOSE i \in owners : \A j \in owners : i <= j]
                      IN  [is_valid |-> FALSE,
                           errors |-> <<"Model '" \o model \o "' belongs to provider '"
                                        \o model_owner \o "', not '" \o provider_type
                                        \o "'. Use provider '" \o model_owner
                                        \o "' or choose a model from "
                                        \o ListRepr(cfg.models)>>,
                           info |-> NoInfo]

\* ProviderRegistry.check_provider_and_model
CheckProviderAndModel(provider_type, model) ==
    CheckProviderAndModelOn(PackagedRegistry, provider_type, model)

\* check_tool_available evaluated on the registry data reg
CheckToolAvailableOn(reg, tool_name) ==
    /\ tool_name \in Elements(reg.TOOLS)
    /\ ("tools/" \o tool_name \o ".py") \in reg.files

\* ToolRegistry.check_tool_available
CheckToolAvailable(tool_name) == CheckToolAvailableOn(PackagedRegistry, tool_name)

\* DataSourceRegistry.check_data_source_available
CheckDataSourceAvailable(source_name) == source_name \in Elements(DATA_SOURCES)

\* faulty variant: the tool check consumes the entry it looked up
RegistryAfterCheckConsuming(reg, fn, args) ==
    IF fn = "check_tool_available"
    THEN [reg EXCEPT !.TOOLS = SelectSeq(@, LAMBDA x : x # args[1])]
    ELSE reg

\* the registry data a check leaves behind: both functions only read
\* PROVIDER_CONFIGS, TOOLS and the package directory
RegistryAfterCheck(reg, fn, args) == reg

\* str() of a DataSourceType member: the class mixes str into Enum, and
\* str() of such a member is its qualified name, not its value
SourceTypeStr(source_type) ==
    IF source_type = "vector_db" THEN "DataSourceType.VECTOR_DB"
    ELSE "DataSourceType.CONVERSATION_HISTORY"

(***************************************************************************)
(* Inputs of process_agent_request.                                        *)
(***************************************************************************)
\* ProviderSpec: provider_type, model, max_tokens (none of them validated).
\* An Optional value is a record whose is_none field tells None apart.
ProviderSpecs ==
    {[is_none |-> FALSE, provider_type |-> "openai", model |-> "gpt-4o-mini",
      max_tokens |-> 2000],
     [is_none |-> FALSE, provider_type |-> "openai", model |-> None,
      max_tokens |-> 2000],
     [is_none |-> FALSE, provider_type |-> "openai", model |-> "gpt-4o-mini",
      max_tokens |-> 0 - 500000],
     [is_none |-> FALSE, provider_type |-> "llama", model |-> "llama-3",
      max_tokens |-> 2000]}

NoProviderSpec ==
    [is_none |-> TRUE, provider_type |-> None, model |-> None, max_tokens |-> 0]

\* ProcessingSpec: execution_strategy and reasoning_threshold (thousandths)
ProcessingSpecs ==
    {[is_none |-> FALSE, execution_strategy |-> "direct", reasoning_threshold |-> 700],
     [is_none |-> FALSE, execution_strategy |-> "reasoned", reasoning_threshold |-> 700],
     [is_none |-> FALSE, execution_strategy |-> "adaptive", reasoning_threshold |-> 0],
     [is_none |-> FALSE, execution_strategy |-> "adaptive", reasoning_threshold |-> 750],
     [is_none |-> FALSE, execution_strategy |-> "adaptive", reasoning_threshold |-> 800]}

NoProcessingSpec ==
    [is_none |-> TRUE, execution_strategy |-> None, reasoning_threshold |-> 0]

\* AgentExecutionSpec as the agent hands it to process_agent_request
AgentSpecs ==
    [is_none : {FALSE},
     data_sources : {<<[source_type |-> "vector_db", enabled |-> TRUE]>>},
     tools : {<<[name |-> "tavily_search", enabled |-> TRUE]>>,
              <<[name |-> "calculator", enabled |-> TRUE]>>},
     provider : ProviderSpecs \cup {NoProviderSpec},
     processing : ProcessingSpecs \cup {NoProcessingSpec}]

NoAgentSpecs ==
    [is_none |-> TRUE, data_sources |-> <<>>, tools |-> <<>>,
     provider |-> NoProviderSpec, processing |-> NoProcessingSpec]

\* request.user_context as the dictionary ctx_dict, with its token, and
\* whether the request carries a RequestMetadata: a context the middleware
\* authenticated (with and without metadata) and anonymous contexts without
\* a token, with an expired one and with a valid one
UserContexts(users) ==
    [user_id : users, authenticated : {TRUE}, token : {None}, has_metadata : BOOLEAN]
    \cup [user_id : users, authenticated : {FALSE},
          token : {None, "valid-token", "expired-token"}, has_metadata : {FALSE}]

\* request.message: the dataclass does not check that it is a str
Messages == {UserMessage, None}

(***************************************************************************)
(* The estimators (backend/evaluation/estimators).                         *)
(***************************************************************************)
\* what get_latency_statistics hands back
NoStatistics == [kind |-> "none", average_latency_recent |-> 0]

LatencyStatistics ==
    {NoStatistics,
     [kind |-> "stats", average_latency_recent |-> 120],
     [kind |-> "raises", average_latency_recent |-> 0]}

\* round(cost, 4) of a cost in units of 0.00001: the nearest ten units
RoundCost(c) == 10 * ((c + 5) \div 10)

\* CostEstimator.estimate
CostEstimate(agent_specs) ==
    RoundCost(
        (IF agent_specs.provider.is_none THEN 0
         ELSE IF agent_specs.provider.max_tokens # 0
              THEN agent_specs.provider.max_tokens
              ELSE DefaultMaxTokens)
        + Len(agent_specs.data_sources) * DataSourceCost
        + Len(agent_specs.tools) * ToolCost)

\* LatencyEstimator.estimate; history_stats is None or the statistics
LatencyEstimate(agent_specs, history_stats) ==
    LET baseline ==
            IF history_stats.kind = "stats" /\ history_stats.average_latency_recent > 0
            THEN history_stats.average_latency_recent
            ELSE BaselineLatency
        overhead ==
            Len(agent_specs.data_sources) * DataSourceLatency
            + Len(agent_specs.tools) * ToolLatency
            + (IF history_stats.kind # "stats" /\ ~agent_specs.provider.is_none
               THEN ProviderLatency ELSE 0)
    IN  baseline + overhead

\* CortexFlow._get_estimates
GetEstimates(agent_specs, stats) ==
    IF stats.kind = "raises"
    THEN [cost |-> 0, latency |-> FallbackLatency]
    ELSE [cost |-> CostEstimate(agent_specs),
          latency |-> LatencyEstimate(agent_specs, stats)]

(***************************************************************************)
(* The reasoning engine (backend/brain/cortex/reasoning_engine.py).        *)
(***************************************************************************)
\* the notes dictionary: an absent key is None (a count of 0 for the lists)
NoNotes ==
    [error |-> None, original_provider |-> None, can_use_cheaper |-> FALSE,
     data_sources |-> 0, tools |-> 0]

\* faulty variant: the result of a failed optimisation carries no specs
OptimizeExecutionSpecsDropping(original_specs, message, stats) ==
    IF ~original_specs.provider.is_none /\ message = None
    THEN [optimized_specs |-> NoAgentSpecs,
          confidence |-> FailedEngineConfidence,
          notes |-> [NoNotes EXCEPT !.error = "'NoneType' object has no attribute 'split'"],
          estimated_cost |-> 0,
          estimated_latency |-> 0]
    ELSE [optimized_specs |-> original_specs,
          confidence |-> EngineConfidence,
          notes |-> [error |-> None,
                     original_provider |->
                         IF original_specs.provider.is_none THEN None
                         ELSE original_specs.provider.provider_type,
                     can_use_cheaper |-> ~original_specs.provider.is_none,
                     data_sources |-> Len(original_specs.data_sources),
                     tools |-> Len(original_specs.tools)],
          estimated_cost |-> CostEstimate(original_specs),
          estimated_latency |->
              LatencyEstimate(original_specs,
                              IF stats.kind = "raises" THEN NoStatistics ELSE stats)]

\* ReasoningEngine.optimize_execution_specs.  _analyze_provider splits
\* request.message and raises for a message that is not a str; the method's
\* own except clause turns that into a result of confidence 0.0.
OptimizeExecutionSpecs(original_specs, message, stats) ==
    IF ~original_specs.provider.is_none /\ message = None
    THEN [optimized_specs |-> original_specs,
          confidence |-> FailedEngineConfidence,
          notes |-> [NoNotes EXCEPT !.error = "'NoneType' object has no attribute 'split'"],
          estimated_cost |-> 0,
          estimated_latency |-> 0]
    ELSE [optimized_specs |-> original_specs,
          confidence |-> EngineConfidence,
          notes |-> [error |-> None,
                     original_provider |->
                         IF original_specs.provider.is_none THEN None
                         ELSE original_specs.provider.provider_type,
                     can_use_cheaper |-> ~original_specs.provider.is_none,
                     data_sources |-> Len(original_specs.data_sources),
                     tools |-> Len(original_specs.tools)],
          estimated_cost |-> CostEstimate(original_specs),
          estimated_latency |->
              LatencyEstimate(original_specs,
                              IF stats.kind = "raises" THEN NoStatistics ELSE stats)]

(***************************************************************************)
(* The planner: create_execution_plan and the plans it builds.             *)
(***************************************************************************)
\* reasoning_notes of a plan: an absent key is None
NoPlanNotes ==
    [strategy |-> None, message |-> None, skipped |-> None,
     has_suggestion |-> FALSE, suggestion |-> NoNotes, notes |-> NoNotes]

NoPlan ==
    [is_none |-> TRUE, original_specs |-> NoAgentSpecs,
     optimized_specs |-> NoAgentSpecs,
     reasoning_applied |-> FALSE, confidence |-> 0, reasoning_notes |-> NoPlanNotes,
     estimated_cost |-> 0, estimated_latency |-> 0]

ExecutionPlan(original_specs, optimized_specs, reasoning_applied, confidence, reasoning_notes, estimated_cost, estimated_latency) ==
    [is_none |-> FALSE, original_specs |-> original_specs,
     optimized_specs |-> optimized_specs, reasoning_applied |-> reasoning_applied,
     confidence |-> confidence, reasoning_notes |-> reasoning_notes,
     estimated_cost |-> estimated_cost, estimated_latency |-> estimated_latency]

\* CortexFlow._create_direct_plan
CreateDirectPlan(agent_specs, stats) ==
    ExecutionPlan(agent_specs, agent_specs, FALSE, DirectConfidence,
                  [NoPlanNotes EXCEPT !.strategy = "direct",
                                      !.message = "Skipped reasoning as requested"],
                  GetEstimates(agent_specs, stats).cost,
                  GetEstimates(agent_specs, stats).latency)

\* faulty variant: the plan built in place carries the reasoning defaults
InlineDirectPlanAsReasoned(agent_specs, stats) ==
    ExecutionPlan(agent_specs, agent_specs, TRUE, EngineConfidence,
                  [NoPlanNotes EXCEPT !.strategy = "direct"],
                  GetEstimates(agent_specs, stats).cost,
                  GetEstimates(agent_specs, stats).latency)

\* the plan process_agent_request builds itself for the other strategies
InlineDirectPlan(agent_specs, stats) ==
    ExecutionPlan(agent_specs, agent_specs, FALSE, DirectConfidence,
                  [NoPlanNotes EXCEPT !.strategy = "direct"],
                  GetEstimates(agent_specs, stats).cost,
                  GetEstimates(agent_specs, stats).latency)

\* CortexFlow._create_reasoned_plan; raises: the call of the reasoning
\* engine raised, which the except clause answers with the direct plan
CreateReasonedPlan(agent_specs, message, stats, raises) ==
    IF raises THEN CreateDirectPlan(agent_specs, stats)
    ELSE LET reasoning_result == OptimizeExecutionSpecs(agent_specs, message, stats)
         IN  ExecutionPlan(agent_specs, reasoning_result.optimized_specs, TRUE,
                           reasoning_result.confidence,
                           [NoPlanNotes EXCEPT !.notes = reasoning_result.notes],
                           reasoning_result.estimated_cost,
                           reasoning_result.estimated_latency)

\* faulty variant: a confidence equal to the threshold is rejected
AdoptsReasoningStrict(confidence, threshold) == confidence > threshold

\* the comparison of _create_adaptive_plan (line 310)
AdoptsReasoning(confidence, threshold) == confidence >= threshold

\* CortexFlow._create_adaptive_plan
CreateAdaptivePlan(agent_specs, message, stats, raises) ==
    IF raises THEN CreateDirectPlan(agent_specs, stats)
    ELSE LET reasoning_result == OptimizeExecutionSpecs(agent_specs, message, stats)
             confidence == reasoning_result.confidence
             threshold == agent_specs.processing.reasoning_threshold
         IN  IF AdoptsReasoning(confidence, threshold)
             THEN ExecutionPlan(agent_specs, reasoning_result.optimized_specs, TRUE,
                                confidence,
                                [NoPlanNotes EXCEPT !.notes = reasoning_result.notes],
                                reasoning_result.estimated_cost,
                                reasoning_result.estimated_latency)
             ELSE ExecutionPlan(agent_specs, agent_specs, FALSE, DirectConfidence,
                                [NoPlanNotes EXCEPT
                                    !.skipped = "confidence " \o FloatStr(confidence, 3)
                                                \o " < " \o FloatStr(threshold, 3),
                                    !.has_suggestion = TRUE,
                                    !.suggestion = reasoning_result.notes],
                                GetEstimates(agent_specs, stats).cost,
                                GetEstimates(agent_specs, stats).latency)

\* CortexFlow.create_execution_plan
CreateExecutionPlan(agent_specs, message, stats, raises) ==
    IF agent_specs.processing.execution_strategy = "reasoned"
    THEN CreateReasonedPlan(agent_specs, message, stats, raises)
    ELSE IF agent_specs.processing.execution_strategy = "adaptive"
    THEN CreateAdaptivePlan(agent_specs, message, stats, raises)
    ELSE CreateDirectPlan(agent_specs, stats)

\* CortexFlow._validate_reasoning_output
ValidateReasoningOutput(plan) ==
    IF plan.is_none
    THEN [valid |-> FALSE, issues |-> <<"No execution plan generated">>]
    ELSE LET has_specs == ~plan.optimized_specs.is_none
             no_specs == IF ~has_specs THEN <<"No optimized specs in plan">> ELSE <<>>
             no_provider ==
                 IF has_specs /\ plan.optimized_specs.provider.is_none
                 THEN <<"No provider specified in optimized specs">> ELSE <<>>
             low_confidence ==
                 IF plan.reasoning_applied /\ plan.confidence < MinReasoningConfidence
                 THEN <<"Reasoning confidence too low: " \o FloatStr(plan.confidence, 3)>>
                 ELSE <<>>
             bad_cost ==
                 IF plan.estimated_cost # 0 /\ plan.estimated_cost < 0
                 THEN <<"Invalid estimated cost: " \o FloatStr(plan.estimated_cost, 5)>>
                 ELSE <<>>
             bad_latency ==
                 IF plan.estimated_latency # 0 /\ plan.estimated_latency < 0
                 THEN <<"Invalid estimated latency: "
                        \o FloatStr(plan.estimated_latency, 2)>>
                 ELSE <<>>
             no_type ==
                 IF has_specs /\ ~plan.optimized_specs.provider.is_none
                    /\ plan.optimized_specs.provider.provider_type \in {None, ""}
                 THEN <<"Provider type not specified">> ELSE <<>>
             no_model ==
                 IF has_specs /\ ~plan.optimized_specs.provider.is_none
                    /\ plan.optimized_specs.provider.model \in {None, ""}
                 THEN <<"Provider model not specified">> ELSE <<>>
             issues == no_specs \o no_provider \o low_confidence \o bad_cost
                       \o bad_latency \o no_type \o no_model
         IN  [valid |-> issues = <<>>, issues |-> issues]

(***************************************************************************)
(* The guardrails (backend/brain/guardrails/security_manager.py).          *)
(***************************************************************************)
\* SessionManager.validate_session for a token
ValidateSession(token) ==
    IF token = "valid-token" THEN [valid |-> TRUE, error |-> None]
    ELSE [valid |-> FALSE, error |-> "Signature has expired"]

\* SecurityManager.validate_user
ValidateUser(cfg, user_context) ==
    LET uv == cfg.user_validation
        res == ValidateSession(user_context.token)
        rejected_token ==
            /\ user_context.token # None
            /\ ~res.valid
            /\ ~user_context.authenticated
            /\ uv.require_auth /\ ~uv.allow_anonymous
        auth == user_context.authenticated \/ (user_context.token # None /\ res.valid)
    IN  IF rejected_token THEN [valid |-> FALSE, error |-> res.error]
        ELSE IF uv.require_auth /\ ~auth /\ ~uv.allow_anonymous
        THEN [valid |-> FALSE, error |-> "Authentication required"]
        ELSE [valid |-> TRUE, error |-> None]

\* faulty variant: the list is emptied on every check
PruneAll(ts, t, window) == SelectSeq(ts, LAMBDA x : x > t)

\* the timestamps of ts younger than the window that ends at t
Prune(ts, t, window) == SelectSeq(ts, LAMBDA x : x > t - window)

\* limits with the entry of user_id replaced
Put(limits, user_id, entry) ==
    [u \in DOMAIN limits \cup {user_id} |-> IF u = user_id THEN entry ELSE limits[u]]

\* faulty variant: the cap itself is still allowed
OverLimitLenient(count, cap) == count > cap

\* the comparisons of check_rate_limit (lines 49 and 53)
OverLimit(count, cap) == count >= cap

\* faulty variant: a denied call is charged to both windows all the same
CheckRateLimitCharging(cfg, limits, user_id, t) ==
    IF ~cfg.rate_limiting.enabled
    THEN [result |-> TRUE, rate_limits |-> limits]
    ELSE LET known == IF user_id \in DOMAIN limits THEN limits[user_id]
                      ELSE [minute |-> <<>>, hour |-> <<>>]
             charged == [minute |-> Append(Prune(known.minute, t, MinuteWindow), t),
                         hour |-> Append(Prune(known.hour, t, HourWindow), t)]
         IN  [result |-> ~(\/ OverLimit(Len(charged.minute) - 1,
                                        cfg.rate_limiting.max_requests_per_minute)
                           \/ OverLimit(Len(charged.hour) - 1,
                                        cfg.rate_limiting.max_requests_per_hour)),
              rate_limits |-> Put(limits, user_id, charged)]

\* SecurityManager.check_rate_limit at time t: the value returned and the
\* timestamp lists the call leaves behind
CheckRateLimit(cfg, limits, user_id, t) ==
    IF ~cfg.rate_limiting.enabled
    THEN [result |-> TRUE, rate_limits |-> limits]
    ELSE LET known == IF user_id \in DOMAIN limits THEN limits[user_id]
                      ELSE [minute |-> <<>>, hour |-> <<>>]
             pruned == [minute |-> Prune(known.minute, t, MinuteWindow),
                        hour |-> Prune(known.hour, t, HourWindow)]
         IN  IF OverLimit(Len(pruned.minute), cfg.rate_limiting.max_requests_per_minute)
             THEN [result |-> FALSE, rate_limits |-> Put(limits, user_id, pruned)]
             ELSE IF OverLimit(Len(pruned.hour), cfg.rate_limiting.max_requests_per_hour)
             THEN [result |-> FALSE, rate_limits |-> Put(limits, user_id, pruned)]
             ELSE [result |-> TRUE,
                   rate_limits |->
                       Put(limits, user_id,
                           [minute |-> Append(pruned.minute, t),
                            hour |-> Append(pruned.hour, t)])]

(***************************************************************************)
(* process_agent_request.                                                  *)
(*                                                                         *)
(* rq is the sequence of the calls in progress.  A call moves through the  *)
(* stages "validation" (lines 155-173), "guardrails" (175-186), "planning" *)
(* (188-202 and 205-216) and "execution" (204 and 217-220); it ends        *)
(* "returned" with a response, or "raised" when an exception leaves the    *)
(* method.  The code between two awaits runs without interleaving, so a    *)
(* stage is one step.                                                      *)
(***************************************************************************)
NotReturned == [is_none |-> TRUE]

\* a call that has just entered process_agent_request at time t
NewRequest(id, agent_specs, message, user_context, t) ==
    [id |-> id, pc |-> "validation", agent_specs |-> agent_specs,
     message |-> message, user_context |-> user_context, start_time |-> t,
     plan |-> NoPlan, validation |-> [valid |-> TRUE, issues |-> <<>>], planner_calls |-> 0,
     reasoning_calls |-> 0, engine_plans |-> <<>>, rejected_by |-> None,
     raised_in |-> None, response |-> NotReturned]

\* r with key k set to v
WithKey(r, k, v) == [x \in DOMAIN r \cup {k} |-> IF x = k THEN v ELSE r[x]]

\* CortexFlow._create_error_response at time t
CreateErrorResponse(message, start_time, t) ==
    [success |-> FALSE, content |-> message, metadata |-> [error |-> message],
     processing_time |-> t - start_time]

\* faulty variant: the exception is logged and raised again
ExceptHandlerReraise(r, stage, e, t) ==
    [r EXCEPT !.pc = "raised", !.raised_in = stage]

\* the except clause of process_agent_request (lines 222-224)
ExceptHandler(r, stage, e, t) ==
    [r EXCEPT !.pc = "returned", !.raised_in = stage,
              !.response = CreateErrorResponse("Internal error: " \o e,
                                               r.start_time, t)]

\* faulty variant: the rejection is noted and the call goes on to planning
RejectAndContinue(r, gate, message, t) ==
    [r EXCEPT !.pc = "planning", !.rejected_by = gate]

\* an early return of an error response
Reject(r, gate, message, t) ==
    [r EXCEPT !.pc = "returned", !.rejected_by = gate,
              !.response = CreateErrorResponse(message, r.start_time, t)]

EngineError == "workflow engine unavailable"

\* the first tool the registry does not know, or None
RECURSIVE FirstUnavailableTool(_, _)
FirstUnavailableTool(tools, i) ==
    IF i > Len(tools) THEN None
    ELSE IF tools[i].enabled /\ ~CheckToolAvailable(tools[i].name) THEN tools[i].name
    ELSE FirstUnavailableTool(tools, i + 1)

\* lines 158-173: the message of the error response, or None
RegistryValidation(agent_specs) ==
    LET checked == CheckProviderAndModel(agent_specs.provider.provider_type,
                                         agent_specs.provider.model)
    IN  IF ~agent_specs.provider.is_none /\ ~checked.is_valid
        THEN "Provider validation failed: " \o Join(checked.errors, ", ")
        ELSE IF FirstUnavailableTool(agent_specs.tools, 1) # None
        THEN "Tool '" \o FirstUnavailableTool(agent_specs.tools, 1) \o "' not available"
        ELSE IF \E i \in 1..Len(agent_specs.data_sources) :
                   /\ agent_specs.data_sources[i].enabled
                   /\ SourceTypeStr(agent_specs.data_sources[i].source_type) = "vector_db"
                   /\ ~CheckDataSourceAvailable("vector_db")
        THEN "Data source 'vector_db' not available"
        ELSE None

\* _ensure_initialized and the registry checks
CheckAvailability(i) ==
    /\ i \in DOMAIN rq
    /\ rq[i].pc = "validation"
    /\ \E init_ok \in BOOLEAN :
        /\ initialized => init_ok
        /\ IF ~init_ok
           THEN /\ rq' = [rq EXCEPT ![i] =
                            ExceptHandler(@, "validation",
                                          "reasoning engine failed to start", clock)]
                /\ UNCHANGED <<initialized, rate_limits>>
           ELSE /\ initialized' = TRUE
                \* initialize() builds a new SecurityManager
                /\ rate_limits' = IF initialized THEN rate_limits ELSE NoRateLimits
                /\ rq' = [rq EXCEPT ![i] =
                            IF RegistryValidation(@.agent_specs) # None
                            THEN Reject(@, "registry",
                                        RegistryValidation(@.agent_specs), clock)
                            ELSE [@ EXCEPT !.pc = "guardrails"]]
    /\ UNCHANGED <<config, clock, allowed>>
    /\ UNCHANGED <<engineVars, serviceVars>>

\* the time that passes before a call reaches its guardrails
ClockSteps == {0, MinuteWindow, HourWindow}

\* validate_user and check_rate_limit; steps is the time that may have passed
Guardrails(i, steps) ==
    /\ i \in DOMAIN rq
    /\ rq[i].pc = "guardrails"
    /\ \E d \in steps :
        LET t == clock + d
            r == rq[i]
            auth_result == ValidateUser(config, r.user_context)
            limit == CheckRateLimit(config, rate_limits, r.user_context.user_id, t)
        IN  /\ clock' = t
            \* line 179: request.metadata.dict() on a dataclass without dict
            /\ IF r.user_context.token = None /\ r.user_context.has_metadata
               THEN /\ rq' = [rq EXCEPT ![i] =
                                ExceptHandler(r, "guardrails",
                                              "'RequestMetadata' object has no attribute 'dict'",
                                              t)]
                    /\ UNCHANGED <<rate_limits, allowed>>
               ELSE IF ~auth_result.valid
               THEN /\ rq' = [rq EXCEPT ![i] =
                                Reject(r, "validate_user",
                                       "Authentication failed: " \o auth_result.error, t)]
                    /\ UNCHANGED <<rate_limits, allowed>>
               ELSE /\ rate_limits' = limit.rate_limits
                    /\ allowed' = IF limit.result
                                  THEN Append(allowed,
                                              [user_id |-> r.user_context.user_id,
                                               at |-> t])
                                  ELSE allowed
                    /\ rq' = [rq EXCEPT ![i] =
                                IF limit.result THEN [r EXCEPT !.pc = "planning"]
                                ELSE Reject(r, "check_rate_limit",
                                            "Rate limit exceeded", t)]
    /\ UNCHANGED <<config, initialized>>
    /\ UNCHANGED <<engineVars, serviceVars>>

\* agent_specs.processing.execution_strategy if agent_specs.processing else "direct"
StrategyOf(agent_specs) ==
    IF agent_specs.processing.is_none THEN "direct"
    ELSE agent_specs.processing.execution_strategy

\* the planner and _validate_reasoning_output for the reasoned and adaptive
\* strategies, the plan built in place for every other strategy; statistics
\* is what get_latency_statistics may hand back
PlanRequest(i, statistics) ==
    /\ i \in DOMAIN rq
    /\ rq[i].pc = "planning"
    /\ \E stats \in statistics, raises \in BOOLEAN :
        LET r == rq[i]
            plan == CreateExecutionPlan(r.agent_specs, r.message, stats, raises)
            validation == ValidateReasoningOutput(plan)
            planned == [r EXCEPT !.plan = plan, !.validation = validation,
                                 !.planner_calls = @ + 1,
                                 !.reasoning_calls = IF raises THEN @ ELSE @ + 1]
        IN  IF StrategyOf(r.agent_specs) \in {"reasoned", "adaptive"}
            THEN rq' = [rq EXCEPT ![i] =
                          IF ~validation.valid
                          THEN Reject(planned, "validate_reasoning_output",
                                      "Reasoning validation failed: "
                                      \o Join(validation.issues, "; "), clock)
                          ELSE [planned EXCEPT !.pc = "execution"]]
            ELSE /\ ~raises
                 /\ rq' = [rq EXCEPT ![i] =
                             [r EXCEPT !.plan = InlineDirectPlan(r.agent_specs, stats),
                                       !.pc = "execution"]]
    /\ UNCHANGED <<config, initialized, rate_limits, clock, allowed>>
    /\ UNCHANGED <<engineVars, serviceVars>>

\* ExecutionPlan.to_dict
PlanToDict(plan) ==
    [reasoning_applied |-> plan.reasoning_applied, confidence |-> plan.confidence,
     reasoning_notes |-> plan.reasoning_notes, estimated_cost |-> plan.estimated_cost,
     estimated_latency |-> plan.estimated_latency]

\* what WorkflowEngine.execute_plan hands back to execute_plan; "raises" is
\* an exception that leaves the engine
EngineResults ==
    {[kind |-> "result", success |-> TRUE, content |-> ValidContent,
      status |-> "completed", metadata |-> [error |-> None]],
     [kind |-> "result", success |-> FALSE, content |-> "No response generated",
      status |-> "completed_with_errors", metadata |-> [error |-> None]],
     [kind |-> "result", success |-> FALSE,
      content |-> "Workflow execution failed: " \o EngineError,
      status |-> "failed", metadata |-> [error |-> EngineError]],
     [kind |-> "raises", success |-> FALSE, content |-> "", status |-> "",
      metadata |-> [error |-> EngineError]]}

\* execute_plan / execute_agent_request and lines 219-220; results is what
\* the workflow engine may hand back
Execute(i, results) ==
    /\ i \in DOMAIN rq
    /\ rq[i].pc = "execution"
    /\ \E out \in results :
        LET r == [rq[i] EXCEPT !.engine_plans = Append(@, rq[i].plan)]
            returned == [success |-> out.success, content |-> out.content,
                         status |-> out.status, metadata |-> out.metadata]
        IN  rq' = [rq EXCEPT ![i] =
                     IF out.kind = "raises"
                     THEN ExceptHandler(r, "execution", EngineError, clock)
                     ELSE [r EXCEPT
                             !.pc = "returned",
                             !.response =
                                 WithKey(WithKey(returned, "execution_plan",
                                                 PlanToDict(r.plan)),
                                         "processing_time", clock - r.start_time)]]
    /\ UNCHANGED <<config, initialized, rate_limits, clock, allowed>>
    /\ UNCHANGED <<engineVars, serviceVars>>

\* the workflow engine is not running
EngineAtRest ==
    /\ specs = [data_sources |-> <<>>, tools |-> <<>>, provider |-> TRUE,
                messages_context |-> NoMessagesContext]
    /\ request \in Requests
    /\ st = [m \in Modes |-> InitialState]
    /\ pc = [m \in Modes |-> "done"]
    /\ result = [m \in Modes |-> NoResult]
    /\ env = InitialEnv(specs)
    /\ handles = [m \in Modes |-> NoHandles]

\* configurations with explicit caps
SecurityConfigs ==
    [rate_limiting : [enabled : BOOLEAN,
                      max_requests_per_minute : 1..MaxPerMinute,
                      max_requests_per_hour : 2..MaxPerHour],
     user_validation : [require_auth : {TRUE}, allow_anonymous : BOOLEAN]]

(***************************************************************************)
(* Requests served one after the other, with every input.                  *)
(***************************************************************************)
CortexConfigs ==
    {c \in SecurityConfigs :
        /\ c.rate_limiting.enabled
        /\ c.rate_limiting.max_requests_per_minute = 1
        /\ c.rate_limiting.max_requests_per_hour = 2}

CortexInit ==
    /\ config \in CortexConfigs
    /\ initialized = FALSE
    /\ rate_limits = NoRateLimits
    /\ clock = 0
    /\ allowed = <<>>
    /\ rq = NoRequests
    /\ EngineAtRest
    /\ ServicesAtRest

\* the agent calls process_agent_request once the previous call has returned
ReceiveNext ==
    /\ \A i \in DOMAIN rq : rq[i].pc \in {"returned", "raised"}
    /\ (IF rq = NoRequests THEN 0 ELSE rq[1].id) < MaxArrivals
    /\ \E a \in AgentSpecs, m \in Messages, u \in UserContexts({"u1"}) :
        rq' = <<NewRequest((IF rq = NoRequests THEN 0 ELSE rq[1].id) + 1,
                           a, m, u, clock)>>
    /\ UNCHANGED <<config, initialized, rate_limits, clock, allowed>>
    /\ UNCHANGED <<engineVars, serviceVars>>

CortexNext ==
    \/ ReceiveNext
    \/ CheckAvailability(1)
    \/ Guardrails(1, {0, MinuteWindow})
    \/ PlanRequest(1, LatencyStatistics)
    \/ Execute(1, EngineResults)

CortexSpec == CortexInit /\ [][CortexNext]_vars

(***************************************************************************)
(* Requests served concurrently on the event loop: a call is suspended at  *)
(* its awaits (_ensure_initialized, create_execution_plan, execute_plan)   *)
(* and the steps of other calls run in between.  The calls carry the spec  *)
(* of one agent and are authenticated, so that each of them reaches        *)
(* check_rate_limit.                                                       *)
(***************************************************************************)
\* calls of process_agent_request in progress at the same time
MaxCallers == 3

\* the spec an agent sends: one provider, one tool, the vector store, direct
ServedSpecs ==
    {a \in AgentSpecs :
        /\ a.provider = [is_none |-> FALSE, provider_type |-> "openai",
                         model |-> "gpt-4o-mini", max_tokens |-> 2000]
        /\ a.tools[1].name = "tavily_search"
        /\ a.processing = [is_none |-> FALSE, execution_strategy |-> "direct",
                           reasoning_threshold |-> 700]}

RateLimitInit ==
    /\ config \in {c \in SecurityConfigs :
                      c.rate_limiting.enabled /\ ~c.user_validation.allow_anonymous}
    /\ initialized = FALSE
    /\ rate_limits = NoRateLimits
    /\ clock = 0
    /\ allowed = <<>>
    /\ rq = NoRequests
    /\ EngineAtRest
    /\ ServicesAtRest

\* an agent calls process_agent_request while other calls are in progress
ReceiveConcurrent ==
    /\ Len(rq) < MaxCallers
    /\ \E a \in ServedSpecs, u \in Users :
        rq' = Append(rq, NewRequest(Len(rq) + 1, a, UserMessage,
                                    [user_id |-> u, authenticated |-> TRUE,
                                     token |-> None, has_metadata |-> FALSE],
                                    clock))
    /\ UNCHANGED <<config, initialized, rate_limits, clock, allowed>>
    /\ UNCHANGED <<engineVars, serviceVars>>

RateLimitNext ==
    \/ ReceiveConcurrent
    \/ \E i \in 1..MaxCallers : CheckAvailability(i)
    \/ \E i \in 1..MaxCallers : Guardrails(i, ClockSteps)
    \/ \E i \in 1..MaxCallers : PlanRequest(i, {NoStatistics})
    \/ \E i \in 1..MaxCallers :
          Execute(i, {e \in EngineResults : e.kind = "result" /\ e.success})

RateLimitSpec == RateLimitInit /\ [][RateLimitNext]_vars

(***************************************************************************)
(* The capability registries, called by any of their clients in any order. *)
(* Both checks are plain functions without an await, so a call runs to its *)
(* return before another call starts.                                      *)
(***************************************************************************)
\* calls of the registries in a run
MaxChecks == 3

RegistryProviders == {"openai", "anthropic", "llama"}

RegistryModels == {None, "gpt-4o-mini", "claude-3-opus-20240229", "llama-3"}

RegistryTools == {"tavily_search", "calculator"}

RegistryInit ==
    /\ ServicesAtRest
    /\ EngineAtRest
    /\ CortexAtRest

\* a call of ProviderRegistry.check_provider_and_model
CheckProviderAndModelCall ==
    /\ Len(answers) < MaxChecks
    /\ \E provider_type \in RegistryProviders, model \in RegistryModels :
         /\ answers' = Append(answers,
                [fn |-> "check_provider_and_model", args |-> <<provider_type, model>>,
                 result |-> CheckProviderAndModelOn(registry, provider_type, model)])
         /\ registry' = RegistryAfterCheck(registry, "check_provider_and_model",
                                           <<provider_type, model>>)
    /\ UNCHANGED <<conversations, transcript, last_return>>
    /\ UNCHANGED <<engineVars, cortexVars>>

\* a call of ToolRegistry.check_tool_available
CheckToolAvailableCall ==
    /\ Len(answers) < MaxChecks
    /\ \E tool_name \in RegistryTools :
         /\ answers' = Append(answers,
                [fn |-> "check_tool_available", args |-> <<tool_name>>,
                 result |-> CheckToolAvailableOn(registry, tool_name)])
         /\ registry' = RegistryAfterCheck(registry, "check_tool_available", <<tool_name>>)
    /\ UNCHANGED <<conversations, transcript, last_return>>
    /\ UNCHANGED <<engineVars, cortexVars>>

RegistryNext == CheckProviderAndModelCall \/ CheckToolAvailableCall

RegistrySpec == RegistryInit /\ [][RegistryNext]_vars

(***************************************************************************)
(* ZoeConversationManager (backend/agents/zoe/conversation_manager.py).    *)
(* add_message and clear_conversation are plain functions without an       *)
(* await.  The uuid of a message is modelled by the pair of its session    *)
(* and its number among the messages created for that session.             *)
(***************************************************************************)
\* self.max_message_history
MaxMessageHistory == 50

\* messages created in a run, and those of them created for session "s2"
MaxMessages == 52
MaxOtherMessages == 1

\* faulty variant: the slice keeps the head of the list
KeepOldest(messages, n) == SubSeq(messages, 1, n)

\* messages[-n:] for n > 0
KeepRecent(messages, n) ==
    IF Len(messages) > n THEN SubSeq(messages, Len(messages) - n + 1, Len(messages))
    ELSE messages

ConversationMessage(session_id, n, role, content) ==
    [id |-> <<session_id, n>>, role |-> role, content |-> content]

\* ZoeConversationManager.add_message: the value returned and the
\* conversations left behind
AddMessage(convs, session_id, message) ==
    IF ~Truthy(session_id) THEN [value |-> FALSE, conversations |-> convs]
    ELSE LET existing == IF session_id \in DOMAIN convs THEN convs[session_id] ELSE <<>>
             appended == Append(existing, message)
             limited == IF Len(appended) > MaxMessageHistory
                        THEN KeepRecent(appended, MaxMessageHistory)
                        ELSE appended
         IN  [value |-> TRUE, conversations |-> Put(convs, session_id, limited)]

\* ZoeConversationManager.clear_conversation
ClearConversation(convs, session_id) ==
    IF session_id \in DOMAIN convs
    THEN [value |-> TRUE,
          conversations |-> [s \in DOMAIN convs \ {session_id} |-> convs[s]]]
    ELSE [value |-> FALSE, conversations |-> convs]

ConversationInit ==
    /\ ServicesAtRest
    /\ EngineAtRest
    /\ CortexAtRest

\* a caller adds a message; transcript records the messages handed over with
\* a session id
AddMessageCall ==
    \E session_id \in Sessions \cup {""} :
        LET n == IF session_id = "" THEN 0 ELSE transcript.created[session_id] + 1
            message == ConversationMessage(session_id, n, "user", UserMessage)
            done == AddMessage(conversations, session_id, message)
        IN  /\ session_id # "" =>
                   transcript.created["s1"] + transcript.created["s2"] < MaxMessages
            /\ session_id = "s2" => transcript.created["s2"] < MaxOtherMessages
            /\ conversations' = done.conversations
            /\ last_return' = [fn |-> "add_message", session_id |-> session_id,
                               value |-> done.value]
            /\ transcript' = IF session_id = "" THEN transcript
                             ELSE [transcript EXCEPT !.created[session_id] = n,
                                                     !.sent[session_id] = Append(@, message)]
            /\ UNCHANGED <<registry, answers>>
            /\ UNCHANGED <<engineVars, cortexVars>>

\* a caller clears a session
ClearConversationCall ==
    \E session_id \in Sessions \cup {""} :
        LET done == ClearConversation(conversations, session_id)
        IN  /\ conversations' = done.conversations
            /\ last_return' = [fn |-> "clear_conversation", session_id |-> session_id,
                               value |-> done.value]
            /\ transcript' = IF session_id = "" THEN transcript
                             ELSE [transcript EXCEPT !.sent[session_id] = <<>>]
            /\ UNCHANGED <<registry, answers>>
            /\ UNCHANGED <<engineVars, cortexVars>>

ConversationNext == AddMessageCall \/ ClearConversationCall

ConversationSpec == ConversationInit /\ [][ConversationNext]_vars

(***************************************************************************)
(* Properties of a run of execute_plan.                                    *)
(***************************************************************************)
Occurrences(seq, x) == Cardinality({i \in 1..Len(seq) : seq[i] = x})

LastOf(seq) == IF Len(seq) = 0 THEN None ELSE seq[Len(seq)]

Returned(m) == pc[m] = "done" /\ result[m].returned

Finalized(m) == pc[m] \in {"return", "done"}

\* validate_response was the last node executed: its verdict is in the state
JustValidated(m) == LastOf(st[m].execution_steps) = "validate_response"

\* neither provider changed its behaviour during the run so far
Stationary == env.variation = Len(specs.data_sources) + Len(specs.tools)

\* C1: in every reachable state of a run, validation_attempts is at most
\* max_validation_runs, which is fixed at 5, and call_provider has been
\* executed at most max_validation_runs times.
C1_BoundedRetries ==
    \A m \in Modes :
        /\ st[m].max_validation_runs = 5
        /\ st[m].validation_attempts <= st[m].max_validation_runs
        /\ Occurrences(st[m].execution_steps, "call_provider") <= st[m].max_validation_runs

\* a run returned after its provider raised and was rejected on each of 5 attempts
C1_Witness ==
    \E m \in Modes :
        /\ Returned(m)
        /\ st[m].validation_attempts = 5
        /\ Occurrences(st[m].execution_steps, "call_provider") = 5
        /\ env.provider.kind = "raises"

\* C2: whatever the providers, the data sources and the validator do, every
\* run eventually executes finalize and returns a result.
C2_Terminates ==
    <>(\A m \in Modes :
          /\ Returned(m)
          /\ Occurrences(st[m].execution_steps, "finalize") = 1)

\* a run returned although validation failed on every one of the 5 attempts
C2_Witness ==
    \A m \in Modes :
        /\ Returned(m)
        /\ st[m].validation_attempts = 5
        /\ st[m].confidence_score < ConfidenceThreshold
        /\ Occurrences(st[m].execution_steps, "finalize") = 1

\* C3 as stated: after each validate_response, confidence >= 0.75 leads to
\* finalize, and confidence < 0.75 with attempts left leads to build_messages.
C3_Original ==
    \A m \in Modes :
        JustValidated(m) =>
            /\ st[m].confidence_score >= ConfidenceThreshold => pc[m] = "finalize"
            /\ (/\ st[m].confidence_score < ConfidenceThreshold
                /\ st[m].validation_attempts < st[m].max_validation_runs)
               => pc[m] = "build_messages"

\* C3 amended: once an attempt scored >= 0.75 no node but finalize runs, so
\* call_provider is not executed again (a first response accepted gives
\* exactly one call_provider); an attempt scored < 0.75 with attempts left
\* is retried unless validation itself raised, which accepts the attempt at
\* confidence 0.5 (is_validated set) and leads to finalize.
C3_ConfidenceGate ==
    \A m \in Modes :
        /\ st[m].confidence_score >= ConfidenceThreshold =>
              /\ pc[m] \in {"finalize", "return", "done"}
              /\ Occurrences(st[m].execution_steps, "call_provider")
                    = st[m].validation_attempts
        /\ JustValidated(m) =>
              /\ (/\ st[m].confidence_score < ConfidenceThreshold
                  /\ st[m].validation_attempts < st[m].max_validation_runs
                  /\ ~st[m].is_validated)
                 => pc[m] = "build_messages"
              /\ (/\ st[m].confidence_score < ConfidenceThreshold
                  /\ st[m].is_validated
                  /\ st[m].validation_attempts < st[m].max_validation_runs)
                 => /\ pc[m] = "finalize"
                    /\ st[m].confidence_score = ValidationErrorConfidence

\* a first response graded 90 (confidence 0.78) was accepted: one call_provider
C3_Witness ==
    \E m \in Modes :
        /\ Returned(m)
        /\ st[m].confidence_score >= ConfidenceThreshold
        /\ st[m].validation_attempts = 1
        /\ Occurrences(st[m].execution_steps, "call_provider") = 1

\* what a caller can observe of a final state
Observable(s) ==
    [execution_steps |-> s.execution_steps,
     data_source_results |-> s.data_source_results,
     tool_results |-> s.tool_results,
     final_content |-> s.final_content,
     errors |-> s.errors,
     status |-> s.status,
     validation_attempts |-> s.validation_attempts]

\* C4: for every spec and every sequence of external responses the graph
\* and the sequential fallback end in the same observable state.
C4_SameObservableState ==
    (\A m \in Modes : Finalized(m)) =>
        Observable(st["graph"]) = Observable(st["sequential"])

RECURSIVE Triples(_)
\* n times build_messages, call_provider, validate_response
Triples(n) ==
    IF n = 0 THEN <<>>
    ELSE <<"build_messages", "call_provider", "validate_response">> \o Triples(n - 1)

\* the trace the transition graph prescribes for a spec and n attempts
GraphPath(s, n) ==
    <<"initialize">>
    \o (IF AnyEnabled(s.data_sources) THEN <<"query_data_sources">> ELSE <<>>)
    \o (IF AnyEnabled(s.tools) THEN <<"execute_tools">> ELSE <<>>)
    \o Triples(n)
    \o <<"finalize">>

\* C5: the execution_steps trace of every run is a path of the transition
\* graph: initialize, query_data_sources iff a data source is enabled,
\* execute_tools iff a tool is enabled, one or more triples build_messages,
\* call_provider, validate_response, and finalize last.
C5_TraceIsGraphPath ==
    \A m \in Modes :
        Finalized(m) =>
            /\ st[m].validation_attempts >= 1
            /\ st[m].execution_steps = GraphPath(specs, st[m].validation_attempts)

LowConfidenceError(confidence) ==
    "Low confidence response (" \o ConfStr(confidence) \o ") replaced with fallback"

\* C6: finalize replaces final_content by the fallback message and appends
\* the error that records the substitution when the last confidence is below
\* 0.75, and leaves final_content and errors alone otherwise; a provider that
\* returns a 5-character response every time is scored 0.1 on each of exactly
\* 5 attempts and ends with the fallback and completed_with_errors.
C6_FallbackAtFinalize ==
    /\ [][\A m \in Modes :
            (pc[m] = "finalize" /\ pc'[m] = "return") =>
                IF st[m].confidence_score < ConfidenceThreshold
                THEN /\ st'[m].final_content = FallbackMessage
                     /\ st'[m].errors =
                            Append(st[m].errors, LowConfidenceError(st[m].confidence_score))
                ELSE /\ st'[m].final_content = st[m].final_content
                     /\ st'[m].errors = st[m].errors]_vars
    /\ [](\A m \in Modes :
            (specs.provider /\ Stationary /\ env.provider.kind = "response"
                /\ env.provider.success /\ env.provider.content = ShortContent) =>
                /\ JustValidated(m) => st[m].confidence_score = TooShortConfidence
                /\ Finalized(m) =>
                      /\ st[m].validation_attempts = 5
                      /\ st[m].final_content = FallbackMessage
                      /\ st[m].status = "completed_with_errors")

\* the always-5-characters run has returned the fallback
C6_Witness ==
    \A m \in Modes :
        /\ Returned(m)
        /\ Stationary
        /\ env.provider.kind = "response"
        /\ env.provider.content = ShortContent
        /\ st[m].validation_attempts = 5
        /\ result[m].content = FallbackMessage
        /\ result[m].status = "completed_with_errors"

IsErrorMarker(content) ==
    \/ ~Truthy(content)
    \/ content = "No response generated"
    \/ StartsWith(content, "Error:")

\* C7: a returned result has success = true only if the last provider call
\* reported success and the content is non-empty and no error marker and the
\* status is completed or completed_with_errors.
C7_SuccessNeedsAllThree ==
    \A m \in Modes :
        (Returned(m) /\ result[m].success) =>
            /\ st[m].llm_response.present /\ st[m].llm_response.success
            /\ ~IsErrorMarker(result[m].content)
            /\ result[m].status \in {"completed", "completed_with_errors"}

\* C8: a run whose attempts all failed or stayed below 0.75, so that the
\* fallback message is delivered, returns success = false.
C8_FallbackIsFailure ==
    \A m \in Modes :
        (/\ Returned(m)
         /\ st[m].confidence_score < ConfidenceThreshold
         /\ result[m].content = FallbackMessage)
        => ~result[m].success

\* C9: after finalize the status is "completed" iff the errors list is
\* empty, "completed_with_errors" otherwise, and end_time is set.
C9_StatusReflectsErrors ==
    \A m \in Modes :
        Finalized(m) =>
            /\ st[m].status = "completed" <=> st[m].errors = <<>>
            /\ st[m].status \in {"completed", "completed_with_errors"}
            /\ st[m].end_time # None

\* a run finished with no error recorded
C9_Witness ==
    \E m \in Modes :
        /\ Returned(m)
        /\ st[m].status = "completed"
        /\ st[m].errors = <<>>

\* C10: finalize is executed exactly once by a run that leaves the loop, also
\* by attempt exhaustion, and no node is executed after it.
C10_FinalizeOnceAndLast ==
    \A m \in Modes :
        /\ Occurrences(st[m].execution_steps, "finalize") <= 1
        /\ Occurrences(st[m].execution_steps, "finalize") = 1 <=> Finalized(m)
        /\ Finalized(m) => LastOf(st[m].execution_steps) = "finalize"
        /\ pc[m] \in {"initialize", "query_data_sources", "execute_tools", "build_messages",
                      "call_provider", "validate_response", "finalize", "return", "done"}

\* a run that exhausted its 5 attempts without acceptance has finalized
C10_Witness ==
    \E m \in Modes :
        /\ Returned(m)
        /\ st[m].validation_attempts = 5
        /\ st[m].confidence_score = 0
        /\ LastOf(st[m].execution_steps) = "finalize"

\* the nodes of one retry iteration
LoopNodes == {"build_messages", "call_provider", "validate_response"}

\* C11: query_data_sources and execute_tools each run at most once per run
\* and never after the first build_messages, and every step of a retry
\* iteration leaves data_source_results and tool_results unchanged.
C11_RetrievalNotRepeated ==
    /\ [](\A m \in Modes :
            LET steps == st[m].execution_steps
            IN  /\ Occurrences(steps, "query_data_sources") <= 1
                /\ Occurrences(steps, "execute_tools") <= 1
                /\ \A i \in 1..Len(steps) : \A j \in 1..Len(steps) :
                      (steps[i] = "build_messages" /\ j > i) =>
                          steps[j] \notin {"query_data_sources", "execute_tools"})
    /\ [][\A m \in Modes :
            pc[m] \in LoopNodes =>
                /\ st'[m].data_source_results = st[m].data_source_results
                /\ st'[m].tool_results = st[m].tool_results]_vars

\* a run with retrieval and tool records went through five iterations
C11_Witness ==
    \E m \in Modes :
        /\ Returned(m)
        /\ st[m].validation_attempts = 5
        /\ Len(st[m].data_source_results) = 1
        /\ Len(st[m].tool_results) = 1
        /\ Occurrences(st[m].execution_steps, "query_data_sources") = 1
        /\ Occurrences(st[m].execution_steps, "execute_tools") = 1

\* the entries of a list that satisfy enabled
EnabledOf(list) == SelectSeq(list, LAMBDA e : e.enabled)

\* the number of queries that raised, each of which left one error entry
QueriesRaised(errors) ==
    Cardinality({i \in 1..Len(errors) : StartsWith(errors[i], "DS Error: ")})

RECURSIVE IsSubsequence(_, _)
\* a is b with some entries removed, the order kept
IsSubsequence(a, b) ==
    IF Len(a) = 0 THEN TRUE
    ELSE IF Len(b) = 0 THEN FALSE
    ELSE IF Head(a) = Head(b) THEN IsSubsequence(Tail(a), Tail(b))
    ELSE IsSubsequence(a, Tail(b))

\* C12: after query_data_sources, data_source_results holds exactly one
\* record for each enabled data source of the spec whose query did not
\* raise, in the order of the spec's list, and none for a disabled source.
C12_OneRecordPerEnabledSource ==
    \A m \in Modes :
        Occurrences(st[m].execution_steps, "query_data_sources") = 1 =>
            LET enabled == EnabledOf(specs.data_sources)
                records == st[m].data_source_results
            IN  /\ Len(records) + QueriesRaised(st[m].errors) = Len(enabled)
                /\ IsSubsequence([i \in 1..Len(records) |-> records[i].source],
                                 [i \in 1..Len(enabled) |-> enabled[i].source_type])

(***************************************************************************)
(* Properties of process_agent_request.                                    *)
(***************************************************************************)
\* the checks a plan has to pass before it may reach the workflow engine
PlanAcceptable(plan) ==
    /\ ~plan.optimized_specs.is_none
    /\ ~plan.optimized_specs.provider.is_none
    /\ ~(plan.reasoning_applied /\ plan.confidence < MinReasoningConfidence)
    /\ plan.estimated_cost >= 0
    /\ plan.estimated_latency >= 0

\* the call has returned a response to its caller
Responded(r) == r.pc = "returned"

\* the response is a failure that carries a message and a processing time
IsFailureResponse(response) ==
    /\ "success" \in DOMAIN response /\ response.success = FALSE
    /\ "content" \in DOMAIN response /\ response.content # ""
    /\ "processing_time" \in DOMAIN response /\ response.processing_time >= 0

\* C13: whatever the execution strategy, a plan without optimized_specs,
\* without a provider, with reasoning applied at a confidence below 0.3, or
\* with a negative estimated cost or latency is never handed to
\* WorkflowEngine.execute_plan; the request ends in a failure response.
C13_InvalidPlanNeverExecuted ==
    \A i \in DOMAIN rq :
        /\ \A k \in 1..Len(rq[i].engine_plans) : PlanAcceptable(rq[i].engine_plans[k])
        /\ (Responded(rq[i]) /\ ~rq[i].plan.is_none /\ ~PlanAcceptable(rq[i].plan))
              => IsFailureResponse(rq[i].response)

\* the planner ran for the call and its reasoning step failed: the call of the
\* reasoning engine raised, or the engine caught its own exception
ReasoningFailed(r) ==
    /\ r.planner_calls > 0
    /\ \/ r.reasoning_calls = 0
       \/ ~r.agent_specs.provider.is_none /\ r.message = None

\* the plan executes the caller's spec as the direct plan does
IsDirectPlan(plan, agent_specs) ==
    /\ plan.optimized_specs = agent_specs
    /\ plan.reasoning_applied = FALSE
    /\ plan.confidence = DirectConfidence

\* C14: with the strategy "reasoned", a reasoning step that fails internally
\* gives the direct plan (original spec, reasoning_applied false, confidence
\* 1.0); the planner does not raise and the request is not failed because
\* the reasoning failed.
C14_ReasonedFallsBackToDirect ==
    \A i \in DOMAIN rq :
        (StrategyOf(rq[i].agent_specs) = "reasoned" /\ ReasoningFailed(rq[i])) =>
            /\ IsDirectPlan(rq[i].plan, rq[i].agent_specs)
            /\ rq[i].raised_in # "planning"
            /\ \A k \in 1..Len(rq[i].validation.issues) :
                  ~StartsWith(rq[i].validation.issues[k], "Reasoning confidence too low")

\* the adaptive planner ran for the call and the reasoning engine returned
AdaptivelyPlanned(r) ==
    /\ StrategyOf(r.agent_specs) = "adaptive"
    /\ r.planner_calls > 0
    /\ r.reasoning_calls > 0

\* C15: with the strategy "adaptive" the plan adopts the reasoning engine's
\* optimized spec, with reasoning_applied true and the engine's confidence,
\* exactly when that confidence is at least reasoning_threshold; otherwise
\* the plan executes the original spec with reasoning_applied false and
\* confidence 1.0 and keeps the rejected suggestion in reasoning_notes.
C15_AdaptiveAdoptsIffConfident ==
    \A i \in DOMAIN rq :
        AdaptivelyPlanned(rq[i]) =>
            LET r == rq[i]
                engine == OptimizeExecutionSpecs(r.agent_specs, r.message, NoStatistics)
                adopted ==
                    /\ r.plan.reasoning_applied
                    /\ r.plan.confidence = engine.confidence
                    /\ r.plan.optimized_specs = engine.optimized_specs
                fallback ==
                    /\ IsDirectPlan(r.plan, r.agent_specs)
                    /\ r.plan.reasoning_notes.has_suggestion
                    /\ r.plan.reasoning_notes.suggestion = engine.notes
                    /\ r.plan.reasoning_notes.skipped # None
            IN  /\ adopted <=> engine.confidence >= r.agent_specs.processing.reasoning_threshold
                /\ ~adopted => fallback

\* an adaptive call whose engine confidence 0.75 is below the threshold 0.8
\* and whose original spec went to the workflow engine
C15_Witness ==
    \E i \in DOMAIN rq :
        /\ AdaptivelyPlanned(rq[i])
        /\ rq[i].agent_specs.processing.reasoning_threshold = 800
        /\ rq[i].plan.reasoning_notes.skipped = "confidence 0.75 < 0.8"
        /\ rq[i].plan.reasoning_notes.suggestion.original_provider = "openai"
        /\ rq[i].engine_plans = <<rq[i].plan>>
        /\ rq[i].plan.optimized_specs = rq[i].agent_specs

\* C16: with the strategy "direct" the plan handed to the workflow engine
\* has the caller's spec as optimized_specs, reasoning_applied false and
\* confidence 1.0, and the reasoning engine is never invoked for the request.
C16_DirectPlanUnchanged ==
    \A i \in DOMAIN rq :
        StrategyOf(rq[i].agent_specs) = "direct" =>
            /\ rq[i].reasoning_calls = 0
            /\ \A k \in 1..Len(rq[i].engine_plans) :
                  IsDirectPlan(rq[i].engine_plans[k], rq[i].agent_specs)

\* a direct call whose plan went to the workflow engine and succeeded
C16_Witness ==
    \E i \in DOMAIN rq :
        /\ ~rq[i].agent_specs.processing.is_none
        /\ rq[i].agent_specs.processing.execution_strategy = "direct"
        /\ Responded(rq[i])
        /\ Len(rq[i].engine_plans) = 1
        /\ rq[i].engine_plans[1].reasoning_notes.strategy = "direct"
        /\ rq[i].response.success

\* the call got as far as validate_user
ReachedGuardrails(r) ==
    /\ r.pc \notin {"validation", "guardrails"}
    /\ r.rejected_by # "registry"
    /\ r.raised_in = None

GateMessages ==
    {"Authentication failed: Authentication required",
     "Authentication failed: Signature has expired",
     "Rate limit exceeded"}

\* C17: a request that fails validate_user or check_rate_limit never reaches
\* create_execution_plan or the workflow engine; it returns a response with
\* success false, the rejection reason as content and a processing time.
C17_GateFailureStopsRequest ==
    \A i \in DOMAIN rq :
        LET r == rq[i]
        IN  /\ (ReachedGuardrails(r) /\ ~ValidateUser(config, r.user_context).valid)
                  => r.rejected_by = "validate_user"
            /\ r.rejected_by \in {"validate_user", "check_rate_limit"} =>
                  /\ r.planner_calls = 0
                  /\ r.reasoning_calls = 0
                  /\ r.plan.is_none
                  /\ r.engine_plans = <<>>
                  /\ Responded(r)
                  /\ IsFailureResponse(r.response)
                  /\ r.response.content \in GateMessages
                  /\ r.response.metadata.error = r.response.content
                  /\ r.response.processing_time = clock - r.start_time

\* the second request of a user within the minute is turned away by
\* check_rate_limit after the first one was served
C17_Witness ==
    \E i \in DOMAIN rq :
        /\ rq[i].id = 2
        /\ rq[i].rejected_by = "check_rate_limit"
        /\ rq[i].response.content = "Rate limit exceeded"
        /\ rq[i].engine_plans = <<>>
        /\ Len(allowed) = 1

\* C20: process_agent_request never lets an exception reach its caller: an
\* exception raised in the registry validation, the guardrails, the planning
\* or the workflow execution becomes a response with success false, a
\* content string and the processing time elapsed so far.
C20_ExceptionsBecomeResponses ==
    \A i \in DOMAIN rq :
        /\ rq[i].pc # "raised"
        /\ rq[i].raised_in # None =>
              /\ Responded(rq[i])
              /\ IsFailureResponse(rq[i].response)
              /\ StartsWith(rq[i].response.content, "Internal error: ")
              /\ rq[i].response.processing_time = clock - rq[i].start_time

\* the workflow engine raised after the plan was handed to it, a minute after
\* the call began
C20_Witness ==
    \E i \in DOMAIN rq :
        /\ rq[i].raised_in = "execution"
        /\ Len(rq[i].engine_plans) = 1
        /\ rq[i].response.content = "Internal error: workflow engine unavailable"
        /\ rq[i].response.processing_time = MinuteWindow

(***************************************************************************)
(* Properties of the rate limiter.                                         *)
(***************************************************************************)
\* the calls of user_id that check_rate_limit allowed in the window before t
AllowedWithin(history, user_id, t, window) ==
    Cardinality({k \in 1..Len(history) :
                    history[k].user_id = user_id /\ history[k].at > t - window})

\* this step runs check_rate_limit for call i
RateChecked(i) ==
    /\ i \in DOMAIN rq
    /\ rq[i].pc = "guardrails"
    /\ rq'[i].pc # "guardrails"
    /\ rq'[i].raised_in = None
    /\ rq'[i].rejected_by # "validate_user"

\* C18: with rate limiting enabled, check_rate_limit allows a call of a
\* user exactly when fewer than max_requests_per_minute calls of that user
\* were allowed in the preceding minute and fewer than max_requests_per_hour
\* in the preceding hour; the calls of one user leave the lists, and so the
\* outcomes, of every other user untouched.
C18_AllowedIffUnderBothCaps ==
    [][\A i \in 1..MaxCallers :
          (RateChecked(i) /\ config.rate_limiting.enabled) =>
              LET u == rq[i].user_context.user_id
                  under_caps ==
                      /\ AllowedWithin(allowed, u, clock', MinuteWindow)
                            < config.rate_limiting.max_requests_per_minute
                      /\ AllowedWithin(allowed, u, clock', HourWindow)
                            < config.rate_limiting.max_requests_per_hour
              IN  /\ (rq'[i].pc = "planning") <=> under_caps
                  /\ (rq'[i].rejected_by = "check_rate_limit") <=> ~under_caps
                  /\ \A v \in DOMAIN rate_limits \ {u} :
                        rate_limits'[v] = rate_limits[v]]_vars

\* max_requests_per_minute = 2 and three calls of u1 at the same instant:
\* allow, allow, deny
C18_Witness ==
    /\ config.rate_limiting.max_requests_per_minute = 2
    /\ clock = 0
    /\ Len(rq) = 3
    /\ \A i \in 1..3 : rq[i].user_context.user_id = "u1"
    /\ allowed = <<[user_id |-> "u1", at |-> 0], [user_id |-> "u1", at |-> 0]>>
    /\ rq[1].pc = "returned" /\ rq[1].response.success
    /\ rq[2].pc = "returned" /\ rq[2].response.success
    /\ rq[3].rejected_by = "check_rate_limit"

\* the entries of the history that belong to user_id and carry the time at
AllowedAt(history, user_id, at) ==
    Cardinality({k \in 1..Len(history) :
                    history[k].user_id = user_id /\ history[k].at = at})

\* C19: with calls of one user running check_rate_limit concurrently, the
\* calls allowed within any one-minute window never exceed
\* max_requests_per_minute, and every timestamp an allowed call recorded is
\* still in the user's lists while it is inside the window.
C19_CountersUpdatedAtomically ==
    config.rate_limiting.enabled =>
        \A k \in 1..Len(allowed) :
            LET u == allowed[k].user_id
                at == allowed[k].at
            IN  /\ Cardinality({j \in 1..Len(allowed) :
                                   /\ allowed[j].user_id = u
                                   /\ allowed[j].at > at - MinuteWindow
                                   /\ allowed[j].at <= at})
                      <= config.rate_limiting.max_requests_per_minute
                /\ u \in DOMAIN rate_limits
                /\ at > clock - MinuteWindow =>
                      Occurrences(rate_limits[u].minute, at) = AllowedAt(allowed, u, at)
                /\ at > clock - HourWindow =>
                      Occurrences(rate_limits[u].hour, at) = AllowedAt(allowed, u, at)

\* two calls of u1 in progress at once under a cap of one per minute: the
\* call that arrived second was checked first and is on its way, the call
\* that arrived first was turned away
C19_Witness ==
    /\ config.rate_limiting.max_requests_per_minute = 1
    /\ Len(rq) >= 2
    /\ rq[1].user_context.user_id = "u1"
    /\ rq[2].user_context.user_id = "u1"
    /\ rq[2].pc = "planning"
    /\ rq[1].rejected_by = "check_rate_limit"
    /\ Len(rate_limits["u1"].minute) = 1

(***************************************************************************)
(* Properties of the provider calls and of the validation loop.            *)
(***************************************************************************)
\* C21: every provider handle that call_provider or the grading step created
\* has been closed when the step returns, whatever the outcome of the step
\* (success, provider-reported failure, initialization failure, exception).
C21_HandlesClosedOnEveryPath ==
    \A m \in Modes : \A i \in DOMAIN handles[m] : handles[m][i].closed

\* an external call has been pending for timeout_seconds or longer
TimedOut == Awaiting /\ env.waited >= TimeoutSeconds

\* C22: when an external call (data-source query, provider generation,
\* grading call) has not returned within processing.timeout_seconds, the
\* node takes its failure path, an error is recorded in the state, and the
\* run reaches finalize.
C22_TimeoutTakesFailurePath ==
    TimedOut ~> (\A m \in Modes : Finalized(m) /\ Len(st[m].errors) > 0)

(***************************************************************************)
(* Properties of the capability registries.                                *)
(***************************************************************************)
\* C23: the registries are pure queries: in every order of calls, two calls
\* of the same check with the same arguments have returned the same result,
\* and the registry data is what it was before the first call.
C23_RegistriesArePureQueries ==
    /\ registry = PackagedRegistry
    /\ \A i \in DOMAIN answers : \A j \in DOMAIN answers :
         (answers[i].fn = answers[j].fn /\ answers[i].args = answers[j].args)
            => answers[i].result = answers[j].result

\* check_provider_and_model("openai", "gpt-4o-mini") was answered valid twice,
\* with a tool check that found its tool in between
C23_Witness ==
    /\ Len(answers) = 3
    /\ answers[1].fn = "check_provider_and_model"
    /\ answers[1].args = <<"openai", "gpt-4o-mini">>
    /\ answers[1].result.is_valid
    /\ answers[2].fn = "check_tool_available" /\ answers[2].result
    /\ answers[3].fn = answers[1].fn /\ answers[3].args = answers[1].args

(***************************************************************************)
(* Properties of the conversation manager.                                 *)
(***************************************************************************)
\* C24: after any sequence of add_message and clear_conversation calls every
\* session's list holds at most max_message_history (50) messages and is the
\* most recent 50 of the messages added since the session was last cleared,
\* in insertion order; add_message with an empty session_id returns false
\* and stores nothing.
C24_HistoryIsMostRecentFifty ==
    /\ DOMAIN conversations \subseteq Sessions
    /\ \A s \in Sessions :
         LET sent == transcript.sent[s]
             kept == IF s \in DOMAIN conversations THEN conversations[s] ELSE <<>>
         IN  /\ Len(kept) <= MaxMessageHistory
             /\ Len(kept) = IF Len(sent) > MaxMessageHistory
                            THEN MaxMessageHistory ELSE Len(sent)
             /\ \A k \in 1..Len(kept) : kept[k] = sent[Len(sent) - Len(kept) + k]
    /\ (last_return.fn = "add_message" /\ last_return.session_id = "")
          => ~last_return.value

\* session "s1" was sent 51 messages and holds messages 2 to 51; "s2" holds
\* its own message; the last call was an add_message without a session id
C24_Witness ==
    /\ Len(transcript.sent["s1"]) = MaxMessageHistory + 1
    /\ "s1" \in DOMAIN conversations
    /\ Len(conversations["s1"]) = MaxMessageHistory
    /\ conversations["s1"][1].id = <<"s1", 2>>
    /\ "s2" \in DOMAIN conversations
    /\ last_return.fn = "add_message" /\ last_return.session_id = ""

(***************************************************************************)
(* Properties of the validation loop.                                      *)
(***************************************************************************)
\* the latest call_provider failed: no provider in the spec, initialize()
\* failed, generate_response raised, or the provider reported a failure
CallProviderFailed ==
    \/ ~specs.provider
    \/ env.provider.kind \in {"init_failed", "raises"}
    \/ env.provider.kind = "response" /\ ~env.provider.success

\* C25: when call_provider failed, the validate_response that follows treats
\* the stored final_content as an error marker: it sets confidence_score to
\* 0.0 and makes no grading call.
C25_ProviderFailureShortCircuits ==
    \A m \in Modes :
        (JustValidated(m) /\ CallProviderFailed)
           => /\ st[m].confidence_score = ShortCircuitConfidence
              /\ handles[m] = NoHandles

\* validate_response raised in the run: its except branch recorded the error
ValidatorRaised(s) ==
    \E i \in DOMAIN s.errors : StartsWith(s.errors[i], "Validation error:")

\* C26: when validation itself raises, the attempt is accepted with
\* confidence 0.5 and no retry follows, and the run keeps the generated
\* content: finalize does not replace it by the low-confidence fallback.
C26_ValidatorFailureKeepsContent ==
    \A m \in Modes :
        /\ (JustValidated(m) /\ ValidatorRaised(st[m]))
              => /\ st[m].is_validated
                 /\ st[m].confidence_score = ValidationErrorConfidence
                 /\ pc[m] = "finalize"
        /\ (Finalized(m) /\ ValidatorRaised(st[m]))
              => /\ st[m].final_content = st[m].llm_response.content
                 /\ st[m].final_content # FallbackMessage

\* the response validated last passed the three rule checks
PassedRuleChecks(s) ==
    /\ IsStr(s.final_content)
    /\ Truthy(s.final_content)
    /\ ~StartsWith(s.final_content, "Error:")
    /\ ~RuleStageOf[s.final_content].decided

\* no grade could be obtained: the spec has no provider, or the grading
\* provider failed to initialize, or the grading call raised
GradingUnavailable ==
    \/ ~specs.provider
    \/ env.grader.kind \in {"init_failed", "raises"}

\* C27: a response that passed the rule checks while no grade could be
\* obtained is accepted with the base confidence 0.5: the workflow does not
\* retry it.
C27_UngradedResponseIsAccepted ==
    \A m \in Modes :
        (JustValidated(m) /\ PassedRuleChecks(st[m]) /\ GradingUnavailable)
           => /\ st[m].confidence_score = BaseConfidence
              /\ st[m].is_validated
              /\ pc[m] = "finalize"

\* strategy m is about to validate a response that is no error marker, so
\* that _validate_response_quality is called
AboutToGrade(m) ==
    /\ pc[m] = "validate_response"
    /\ IsStr(st[m].final_content)
    /\ Truthy(st[m].final_content)
    /\ ~StartsWith(st[m].final_content, "Error:")

\* C28: the validator and the loop use one threshold: whatever the grading
\* provider does, the validator's result has is_valid = true iff its
\* confidence is >= 0.75, and validate_response sets is_validated = true
\* exactly when the validator returned is_valid = true.
C28_VerdictAndLoopAgree ==
    \A m \in Modes : \A g \in GraderOutcomes :
        AboutToGrade(m) =>
            LET validation_result ==
                    ValidateResponseQuality(st[m].final_content, specs.provider, g)
                validated == ValidateResponseNode(st[m], request, specs, g)
            IN  /\ validation_result.is_valid
                      <=> validation_result.confidence >= ConfidenceThreshold
                /\ validated.is_validated <=> validation_result.is_valid

(***************************************************************************)
(* Runs of execute_plan for an agent that supplies its own messages, next  *)
(* to runs that use the generic prompt.                                    *)
(***************************************************************************)
\* the messages_context ZoeAgent.create_execution_specs puts in agent_metadata
ZoeMessagesContext ==
    [present |-> TRUE, system_prompt |-> "You are Zoe.",
     conversation_history |-> <<Message("user", "Hi"),
                                Message("assistant", "Hi, I am Zoe.")>>,
     current_message |-> UserMessage]

AgentContextInit ==
    /\ \E e \in ExecutionSpecs : \E mc \in {NoMessagesContext, ZoeMessagesContext} :
           specs = [e EXCEPT !.messages_context = mc]
    /\ request \in Requests
    /\ st = [m \in Modes |-> InitialState]
    /\ pc = [m \in Modes |-> "initialize"]
    /\ result = [m \in Modes |-> NoResult]
    /\ env = InitialEnv(specs)
    /\ env.variation <= MaxVariation
    /\ handles = [m \in Modes |-> NoHandles]
    /\ CortexAtRest
    /\ ServicesAtRest

AgentContextSpec == AgentContextInit /\ [][Next]_vars

\* strategy m has built the messages of a retry and is about to send them
RetryMessagesBuilt(m) ==
    /\ pc[m] = "call_provider"
    /\ st[m].validation_attempts > 0
    /\ Truthy(st[m].validation_feedback)

\* pat occurs in s (the operator "in" of two strings)
Occurs(s, pat) ==
    \E i \in 1..(Len(s) - Len(pat) + 1) : SubSeq(s, i, i + Len(pat) - 1) = pat

\* some message carries the previous response, the feedback and the
\* instruction to improve
CarriesRetryGuidance(messages, prev_response, feedback) ==
    \E i \in 1..Len(messages) :
        /\ Occurs(messages[i].content,
               "Previous response: " \o Truncate(prev_response, PrevResponseLimit))
        /\ Occurs(messages[i].content, "Feedback: " \o feedback)
        /\ Occurs(messages[i].content, "Please generate a better")

\* C29: on every retry (validation_attempts > 0 and validation_feedback set)
\* the messages sent to the provider contain the previous response cut to
\* 500 characters, the validation feedback and the instruction to produce an
\* improved answer, with a messages_context of the agent and with the
\* generic prompt alike.
C29_RetryMessagesCarryGuidance ==
    \A m \in Modes :
        RetryMessagesBuilt(m) =>
            CarriesRetryGuidance(st[m].messages, st[m].final_content,
                                 st[m].validation_feedback)

\* C30: every execution of validate_response adds exactly 1 to
\* validation_attempts, whichever path it takes (error-marker short-circuit,
\* accepted, rejected, validator exception): in every reachable state
\* validation_attempts is the number of validate_response entries in
\* execution_steps.
C30_AttemptsCountValidations ==
    \A m \in Modes :
        st[m].validation_attempts
            = Occurrences(st[m].execution_steps, "validate_response")

\* a run that short-circuited on an error marker, was sent round again and
\* then had its response accepted: two or more validations, all counted
C30_Witness ==
    \E m \in Modes :
        /\ JustValidated(m)
        /\ st[m].validation_attempts >= 2
        /\ st[m].validation_feedback = "Response generation failed or returned error"
        /\ st[m].is_validated

(***************************************************************************)
(* Runs of execute_plan over several data sources.                         *)
(***************************************************************************)
MaxQueried == 3

VectorSources == {[source_type |-> "vector_db", enabled |-> e] : e \in BOOLEAN}

\* plans with MaxQueried vector sources; the provider and the grading
\* provider behave the same way throughout a run
SourcesInit ==
    /\ \E ds \in [1..MaxQueried -> VectorSources] :
       \E tl \in {<<>>, <<[name |-> "tavily_search", enabled |-> TRUE]>>} :
       \E mc \in {NoMessagesContext, ZoeMessagesContext} :
           specs = [data_sources |-> ds, tools |-> tl, provider |-> TRUE,
                    messages_context |-> mc]
    /\ request \in Requests
    /\ st = [m \in Modes |-> InitialState]
    /\ pc = [m \in Modes |-> "initialize"]
    /\ result = [m \in Modes |-> NoResult]
    /\ env = [InitialEnv(specs) EXCEPT !.variation = MaxVariation]
    /\ handles = [m \in Modes |-> NoHandles]
    /\ CortexAtRest
    /\ ServicesAtRest

SourcesSpec == SourcesInit /\ [][Next]_vars

(***************************************************************************)
(* Properties of retrieval and of message assembly                         *)
(***************************************************************************)
Queried(m) == Occurrences(st[m].execution_steps, "query_data_sources") > 0

\* the sources whose query was attempted, and those among them that raised
Attempted == {i \in DOMAIN env.sources : specs.data_sources[i].enabled
                                          /\ specs.data_sources[i].source_type = "vector_db"}

Raised == {i \in Attempted : env.sources[i] = "raises"}

DSErrors(m) ==
    Cardinality({k \in DOMAIN st[m].errors : StartsWith(st[m].errors[k], "DS Error: ")})

\* the position in data_source_results of the record of source i
RecordOf(m, i) == Cardinality({j \in Attempted \ Raised : j <= i})

\* C31: when the query of an enabled data source raises, an error string is
\* appended to errors and no record is added for that source; the records of
\* the sources queried before it are kept and every later enabled source is
\* still queried (each has its record, in the order of the plan); and
\* build_messages runs afterwards and uses the records that were retrieved.
C31_SourceFailureIsContained ==
    \A m \in Modes :
        Queried(m) =>
            /\ DSErrors(m) = Cardinality(Raised)
            /\ Len(st[m].data_source_results) = Cardinality(Attempted \ Raised)
            /\ \A i \in Attempted \ Raised :
                   LET r == st[m].data_source_results[RecordOf(m, i)]
                   IN  IF env.sources[i] = "ok"
                       THEN r.error = None /\ r.results = <<"doc " \o NatStr(i)>>
                       ELSE r.error # None
            /\ pc[m] \in {"execute_tools", "build_messages"} \/ Rank(m) >= 3
            /\ Finalized(m) => Occurrences(st[m].execution_steps, "build_messages") > 0
            /\ pc[m] = "call_provider" =>
                   \A i \in Attempted \ Raised :
                       env.sources[i] = "ok" =>
                           \E k \in DOMAIN st[m].messages :
                               Occurs(st[m].messages[k].content, "doc " \o NatStr(i))

\* the second of three enabled sources raised, the first and the third were
\* retrieved, and the messages have been built
C31_Witness ==
    /\ Attempted = {1, 2, 3}
    /\ env.sources = <<"ok", "raises", "ok">>
    /\ \E m \in Modes :
           /\ pc[m] = "call_provider"
           /\ Len(st[m].data_source_results) = 2
           /\ DSErrors(m) = 1

\* C32: every execution of build_messages, first attempt or retry, leaves a
\* non-empty messages list; and whenever the assembly raises (the node
\* records an error), the list it leaves is the single-message fallback that
\* holds only the raw user text.
C32_MessagesNeverEmpty ==
    \A m \in Modes :
        pc[m] = "build_messages" =>
            LET built == BuildMessagesNode(st[m], request, specs)
            IN  /\ Len(built.messages) > 0
                /\ Len(built.errors) > Len(st[m].errors) =>
                       built.messages = <<Message("user", request.message)>>

(***************************************************************************)
(* The response validator on its own: _validate_response_quality and the   *)
(* verdict of validate_response on its result, for one response and one    *)
(* behaviour of the grading provider.                                      *)
(***************************************************************************)
MaxGradings == 1

\* a plan that names only a provider, or not even that
BareSpecs(provider) ==
    [data_sources |-> <<>>, tools |-> <<>>, provider |-> provider,
     messages_context |-> NoMessagesContext]

ValidatorInit ==
    /\ ServicesAtRest
    /\ EngineAtRest
    /\ CortexAtRest

\* validate_response on a state whose final_content is response
ValidateResponseQualityCall ==
    /\ Len(answers) < MaxGradings
    /\ \E response \in RuleResponses, provider \in BOOLEAN, g \in GraderBehaviours :
         LET s == [InitialState EXCEPT !.final_content = response]
             bare == BareSpecs(provider)
             req == CHOOSE r \in Requests : TRUE
             validated == ValidateResponseNode(s, req, bare, g)
         IN  /\ answers' = Append(answers,
                    [fn |-> "_validate_response_quality",
                     args |-> <<response, provider, g>>,
                     result |-> ValidateResponseQuality(response, provider, g),
                     graded |-> GraderConsulted(s, bare),
                     validated |-> validated,
                     route |-> RouteAfterValidation(validated).route])
    /\ UNCHANGED <<registry, conversations, transcript, last_return>>
    /\ UNCHANGED <<engineVars, cortexVars>>

ValidatorSpec == ValidatorInit /\ [][ValidateResponseQualityCall]_vars

(***************************************************************************)
(* Properties of the response validator                                    *)
(***************************************************************************)
\* the gradings recorded: the calls whose grading provider replied
Gradings == {i \in DOMAIN answers : answers[i].graded /\ answers[i].args[3].kind = "reply"}

Accepted(a) == a.validated.is_validated /\ a.route = "finalize"

\* C33: when the grader's reply contains "SCORE: n" the final confidence is
\* 0.3 * 0.5 + 0.7 * min(n, 100) / 100 and the response is accepted iff
\* n >= 86; when no score can be parsed the confidence is 0.75 (accepted) if
\* the reply contains "acceptable" or "good", and 0.5 (rejected, with the
\* reply text as feedback) otherwise.
C33_ScoreAndKeywordVerdicts ==
    \A i \in Gradings :
        LET a == answers[i]
            text == a.args[3].text
        IN  /\ \A n \in 0..MaxScore :
                  text = ScoredReply(n) =>
                      /\ a.result.confidence
                             = (3 * 500) \div 10 + 7 * (IF n < 100 THEN n ELSE 100)
                      /\ a.validated.confidence_score = a.result.confidence
                      /\ Accepted(a) <=> n >= 86
            /\ text \in UnscoredReplies =>
                  IF Occurs(Lower(text), "acceptable") \/ Occurs(Lower(text), "good")
                  THEN a.result.confidence = 750 /\ Accepted(a)
                  ELSE /\ a.result.confidence = 500
                       /\ ~Accepted(a)
                       /\ a.result.feedback = Strip(text)
                       /\ a.validated.validation_feedback = Strip(text)

\* a reply scored 86 was accepted at 0.752
C33_Witness ==
    \E i \in Gradings :
        /\ answers[i].args[3].text = ScoredReply(86)
        /\ answers[i].result.confidence = 752
        /\ Accepted(answers[i])

\* C34: as the grading prompt says, a response the grader scores 75 or
\* higher is acceptable: for every parsed score n >= 75 the validator
\* returns is_valid = true and the workflow does not retry, and for every
\* n < 75 the response is rejected.
C34_SeventyFiveIsAcceptable ==
    \A i \in Gradings : \A n \in 0..MaxScore :
        answers[i].args[3].text = ScoredReply(n) =>
            IF n >= 75
            THEN answers[i].result.is_valid /\ answers[i].route # "retry"
            ELSE ~answers[i].result.is_valid /\ ~Accepted(answers[i])

\* the response contains one of the refusal patterns, in any case
HasRefusalPattern(response) ==
    \E pat \in {"i cannot", "i can't", "i don't have", "i'm unable", "as an ai",
                "i apologize, but", "i'm sorry, but"} : Occurs(Lower(response), pat)

\* the result is the rule outcome with this confidence, and it was reached
\* without the grading provider: it is invalid whatever the provider would
\* have done, and no grading call was made
DecidedByRule(a, confidence) ==
    /\ a.result.confidence = confidence
    /\ ~a.result.is_valid
    /\ ~a.graded

\* C35: the rule stage returns the first outcome that matches, in this
\* order: stripped length < 10 gives confidence 0.1, invalid; fewer than 3
\* spaces gives 0.2, invalid; a refusal pattern together with a length < 100
\* gives 0.3, invalid; otherwise the base confidence is 0.5.  When one of
\* the first three matches no grading call is made.
C35_RuleStageOrder ==
    \A i \in DOMAIN answers :
        LET a == answers[i]
            response == a.args[1]
            provider == a.args[2]
            g == a.args[3]
        IN  IF Len(Strip(response)) < 10 THEN DecidedByRule(a, 100)
            ELSE IF Count(response, " ") < 3 THEN DecidedByRule(a, 200)
            ELSE IF HasRefusalPattern(response) /\ Len(response) < 100
            THEN DecidedByRule(a, 300)
            ELSE /\ a.graded <=> provider
                 /\ (~provider \/ g.kind # "reply") => a.result.confidence = 500
                 /\ \A n \in 0..MaxScore :
                        (provider /\ g.text = ScoredReply(n)) =>
                            a.result.confidence
                                = (3 * 500) \div 10 + 7 * (IF n < 100 THEN n ELSE 100)

\* a short refusal with fewer than 3 spaces got 0.2 and not 0.3, although
\* the grading provider would have scored it 100
C35_Witness ==
    \E i \in DOMAIN answers :
        /\ answers[i].args[1] = "I cannot do"
        /\ answers[i].args[2]
        /\ answers[i].args[3].text = ScoredReply(100)
        /\ answers[i].result.confidence = 200

(***************************************************************************)
(* Properties of the planner                                               *)
(***************************************************************************)
\* C36: every ExecutionPlan the planner produces with reasoning_applied =
\* true has an optimized_specs that is not None, whatever the reasoning
\* engine returned (its normal result or the result of its own failure).
C36_ReasonedPlanHasSpecs ==
    \A i \in DOMAIN rq :
        (~rq[i].plan.is_none /\ rq[i].plan.reasoning_applied) =>
            /\ ~rq[i].plan.optimized_specs.is_none
            /\ rq[i].plan.optimized_specs = rq[i].agent_specs

\* a reasoned plan built from the result of a failed optimisation
C36_Witness ==
    \E i \in DOMAIN rq :
        /\ rq[i].planner_calls > 0
        /\ rq[i].plan.reasoning_applied
        /\ rq[i].plan.confidence = FailedEngineConfidence
        /\ rq[i].plan.reasoning_notes.notes.error # None
        /\ ~rq[i].plan.optimized_specs.is_none

\* the statistics whose retrieval raises during the estimation
FailingStatistics == [kind |-> "raises", average_latency_recent |-> 0]

\* the plan process_agent_request builds for request r with these statistics
PlanWith(r, stats) ==
    IF StrategyOf(r.agent_specs) \in {"reasoned", "adaptive"}
    THEN CreateExecutionPlan(r.agent_specs, r.message, stats, FALSE)
    ELSE InlineDirectPlan(r.agent_specs, stats)

\* C37: for every strategy, when the estimation of cost or latency raises
\* while the plan is built, the plan is still produced, it goes on to
\* execution if it would have without the failure, and it carries the safe
\* defaults estimated_cost 0.0 and estimated_latency 1.0.
C37_EstimationFailureIsHarmless ==
    \A i \in DOMAIN rq :
        rq[i].pc = "planning" =>
            LET plan == PlanWith(rq[i], FailingStatistics)
            IN  /\ ~plan.is_none
                /\ ValidateReasoningOutput(PlanWith(rq[i], NoStatistics)).valid
                       => ValidateReasoningOutput(plan).valid
                /\ plan.estimated_cost = 0
                /\ plan.estimated_latency = FallbackLatency

(***************************************************************************)
(* Properties of a completed run                                           *)
(***************************************************************************)
\* C38: a run whose final status is "completed" has a confidence_score of
\* at least 0.75, was not ended by the exhaustion of its attempts (its last
\* validation accepted the response, within max_validation_runs), and
\* returns as final_content exactly the content of its last successful
\* provider response, never the fallback message or an error marker.
C38_CompletedMeansValidated ==
    \A m \in Modes :
        (Finalized(m) /\ st[m].status = "completed") =>
            /\ st[m].confidence_score >= ConfidenceThreshold
            /\ st[m].validation_attempts <= st[m].max_validation_runs
            /\ \A k \in DOMAIN st[m].errors :
                   ~StartsWith(st[m].errors[k], "Response validation failed after")
            /\ st[m].llm_response.present
            /\ st[m].llm_response.success
            /\ st[m].final_content = st[m].llm_response.content
            /\ st[m].final_content # FallbackMessage
            /\ IsStr(st[m].final_content)
            /\ ~StartsWith(st[m].final_content, "Error")

\* a run completed on its fifth and last attempt, after four rejections
C38_Witness ==
    \E m \in Modes :
        /\ Finalized(m)
        /\ st[m].status = "completed"
        /\ st[m].validation_attempts = MaxValidationRuns
        /\ st[m].final_content = ValidContent

(***************************************************************************)
(* What a call of check_rate_limit records                                 *)
(***************************************************************************)
\* the timestamp lists of user_id in limits, empty for an unknown user
WindowsOf(limits, user_id) ==
    IF user_id \in DOMAIN limits THEN limits[user_id]
    ELSE [minute |-> <<>>, hour |-> <<>>]

\* C39: a denied check_rate_limit call records no timestamp, in neither
\* window; an allowed call records exactly one timestamp, the time of the
\* call, in each window; no call adds any other timestamp.
C39_DeniedCallsAreFree ==
    [][\A i \in 1..MaxCallers :
          (RateChecked(i) /\ config.rate_limiting.enabled) =>
              LET u == rq[i].user_context.user_id
                  before == WindowsOf(rate_limits, u)
                  after == WindowsOf(rate_limits', u)
                  added == IF rq'[i].pc = "planning" THEN 1 ELSE 0
              IN  /\ rq'[i].pc = "planning" \/ rq'[i].rejected_by = "check_rate_limit"
                  /\ Occurrences(after.minute, clock')
                        = Occurrences(before.minute, clock') + added
                  /\ Occurrences(after.hour, clock')
                        = Occurrences(before.hour, clock') + added
                  /\ Len(after.minute) <= Len(before.minute) + added
                  /\ Len(after.hour) <= Len(before.hour) + added
                  /\ \A q \in 1..Len(after.minute) :
                        after.minute[q] # clock' =>
                            Occurrences(after.minute, after.minute[q])
                                <= Occurrences(before.minute, after.minute[q])
                  /\ \A q \in 1..Len(after.hour) :
                        after.hour[q] # clock' =>
                            Occurrences(after.hour, after.hour[q])
                                <= Occurrences(before.hour, after.hour[q])]_vars

\* C39, second half: after any sequence of calls the minute window of a
\* user holds at most max_requests_per_minute timestamps and the hour
\* window at most max_requests_per_hour
C39_WindowsWithinCaps ==
    config.rate_limiting.enabled =>
        \A u \in DOMAIN rate_limits :
            /\ Len(rate_limits[u].minute) <= config.rate_limiting.max_requests_per_minute
            /\ Len(rate_limits[u].hour) <= config.rate_limiting.max_requests_per_hour

\* both halves of C39
C39_DeniedFreeAndWindowsCapped ==
    C39_DeniedCallsAreFree /\ []C39_WindowsWithinCaps

\* a call turned away by the hour cap alone, a minute after two allowed
\* calls: the minute window is below its cap, the hour window is full and
\* the denied call has added nothing to either
C39_Witness ==
    /\ config.rate_limiting.max_requests_per_minute = 2
    /\ config.rate_limiting.max_requests_per_hour = 2
    /\ Len(rq) = 3
    /\ \A i \in 1..3 : rq[i].user_context.user_id = "u1"
    /\ \E i \in 1..3 : rq[i].rejected_by = "check_rate_limit"
    /\ Len(allowed) = 2
    /\ "u1" \in DOMAIN rate_limits
    /\ Len(rate_limits["u1"].minute) < 2
    /\ Len(rate_limits["u1"].hour) = 2
    /\ \A q \in 1..Len(rate_limits["u1"].hour) : rate_limits["u1"].hour[q] # clock

\* C40: under the adaptive strategy with a valid provider, for every
\* reasoning_threshold and every outcome of the reasoning step, its internal
\* failure with confidence 0.0 included, planning never fails the request
\* for low reasoning confidence: a plan adopted with reasoning_applied has a
\* confidence of at least 0.3, and any other plan executes the original
\* spec.
C40_AdaptiveNeverFailsOnConfidence ==
    \A i \in DOMAIN rq :
        (/\ StrategyOf(rq[i].agent_specs) = "adaptive"
         /\ ~rq[i].agent_specs.provider.is_none
         /\ rq[i].agent_specs.provider.provider_type \notin {None, ""}
         /\ rq[i].agent_specs.provider.model \notin {None, ""}
         /\ ~rq[i].plan.is_none) =>
            /\ \A k \in DOMAIN rq[i].validation.issues :
                   ~StartsWith(rq[i].validation.issues[k], "Reasoning confidence too low")
            /\ rq[i].plan.reasoning_applied =>
                   rq[i].plan.confidence >= MinReasoningConfidence
            /\ ~rq[i].plan.reasoning_applied =>
                   rq[i].plan.optimized_specs = rq[i].agent_specs

====
